---- MODULE Spec2Model ----
(***************************************************************************)
(* Model of the expression layer of the gonec front end (package ast):     *)
(* every expression variant, its Simplify (constant folding) and its       *)
(* BinTo / BinLetTo (lowering to register bytecode), plus a stub register  *)
(* machine that runs the emitted instructions and records what it does.    *)
(***************************************************************************)
EXTENDS Integers, Sequences, FiniteSets, TLC

(***************************************************************************)
(* Bounds of the model.                                                    *)
(***************************************************************************)
MaxReg == 1      \* initial destination registers are 0..MaxReg
MaxLid == 1      \* initial label counters are 0..MaxLid
MaxArgs == 2     \* call argument lists / array literals have 0..MaxArgs items
MaxKeys == 2     \* map literals have 0..MaxKeys keys
MaxCases == 4    \* switch / select case lists have 0..MaxCases clauses

(***************************************************************************)
(* Source positions.  A node built by the parser carries its own span,     *)
(* modelled as the node's path from the root; a node built with a zero     *)
(* ExprImpl carries the empty span NoPos.                                  *)
(***************************************************************************)
NoPos == <<0>>

(***************************************************************************)
(* Runtime values (package core).                                          *)
(***************************************************************************)
VMInt(n) == [t |-> "Int", i |-> n]
VMDecimal(n) == [t |-> "Dec", i |-> n]          \* n counts tenths
VMString(s) == [t |-> "Str", s |-> s]
VMBool(b) == [t |-> "Bool", b |-> b]
VMSlice(elems) == [t |-> "Slice", elems |-> elems]
VMStringMap(m) == [t |-> "Map", m |-> m]
VMNullVar == [t |-> "Null"]
VMNil == [t |-> "Nil"]
GoNil == [t |-> "gonil"]                        \* the nil interface value

\* Integer literals the lexer can hand over; any other digit string
\* (here the 20-digit "99999999999999999999") overflows VMInt.Parse.
IntLits == [l \in {"0", "1", "2", "3", "7"} |->
              CASE l = "0" -> 0 [] l = "1" -> 1 [] l = "2" -> 2
                [] l = "3" -> 3 [] l = "7" -> 7]
\* Literals containing one of ".eE"; "2.5" parses, "1e" does not.
DecLits == [l \in {"2.5"} |-> 25]
ContainsDotOrExp(l) == l \in {"2.5", "1e"}

VMIntParse(l) == IF l \in DOMAIN IntLits
                 THEN [err |-> FALSE, v |-> VMInt(IntLits[l])]
                 ELSE [err |-> TRUE, v |-> VMInt(0)]
VMDecimalParse(l) == IF l \in DOMAIN DecLits
                     THEN [err |-> FALSE, v |-> VMDecimal(DecLits[l])]
                     ELSE [err |-> TRUE, v |-> VMDecimal(0)]

\* Capabilities a value offers to the folding pass.
IsVMUnarer(v) == v.t \in {"Int", "Dec", "Bool"}
IsVMOperationer(v) == v.t \in {"Int", "Dec", "Bool", "Str"}
IsVMBooler(v) == v.t \in {"Bool"}
IsVMSlicer(v) == v.t = "Slice"
IsVMStringMaper(v) == v.t = "Map"

\* Textual operator -> opcode.
OperMap == [o \in {"+", "-", "*", "/", "==", "!=", "<", "&&", "||"} |->
              CASE o = "+" -> "ADD" [] o = "-" -> "SUB" [] o = "*" -> "MUL"
                [] o = "/" -> "QUO" [] o = "==" -> "EQL" [] o = "!=" -> "NEQ"
                [] o = "<" -> "LSS" [] o = "&&" -> "LAND" [] o = "||" -> "LOR"]

EvalOk(v) == [err |-> FALSE, v |-> v]
EvalErr == [err |-> TRUE, v |-> GoNil]

EvalUnOp(v, oper) ==
  CASE v.t = "Int" /\ oper = "-" -> EvalOk(VMInt(0 - v.i))
    [] v.t = "Dec" /\ oper = "-" -> EvalOk(VMDecimal(0 - v.i))
    [] v.t = "Bool" /\ oper = "!" -> EvalOk(VMBool(~v.b))
    [] OTHER -> EvalErr

EvalBinOp(x1, oper, x2) ==
  CASE x1.t = "Int" /\ x2.t = "Int" ->
         CASE oper = "ADD" -> EvalOk(VMInt(x1.i + x2.i))
           [] oper = "SUB" -> EvalOk(VMInt(x1.i - x2.i))
           [] oper = "MUL" -> EvalOk(VMInt(x1.i * x2.i))
           [] oper = "QUO" -> IF x2.i = 0 THEN EvalErr
                              ELSE EvalOk(VMInt(x1.i \div x2.i))
           [] oper = "EQL" -> EvalOk(VMBool(x1.i = x2.i))
           [] oper = "NEQ" -> EvalOk(VMBool(x1.i # x2.i))
           [] oper = "LSS" -> EvalOk(VMBool(x1.i < x2.i))
           [] OTHER -> EvalErr
    [] x1.t = "Bool" /\ x2.t = "Bool" ->
         CASE oper = "LAND" -> EvalOk(VMBool(x1.b /\ x2.b))
           [] oper = "LOR" -> EvalOk(VMBool(x1.b \/ x2.b))
           [] oper = "EQL" -> EvalOk(VMBool(x1.b = x2.b))
           [] oper = "NEQ" -> EvalOk(VMBool(x1.b # x2.b))
           [] OTHER -> EvalErr
    [] x1.t = "Str" /\ x2.t = "Str" ->
         CASE oper = "ADD" -> EvalOk(VMString(x1.s \o x2.s))
           [] oper = "EQL" -> EvalOk(VMBool(x1.s = x2.s))
           [] oper = "NEQ" -> EvalOk(VMBool(x1.s # x2.s))
           [] OTHER -> EvalErr
    [] OTHER -> EvalErr

(***************************************************************************)
(* Expression nodes.  The absent (nil) child is Nil.                       *)
(***************************************************************************)
Nil == [k |-> "nil"]
NoneExpr == [k |-> "None", pos |-> NoPos]
NumberExpr(lit) == [k |-> "Number", pos |-> NoPos, Lit |-> lit]
StringExpr(lit) == [k |-> "String", pos |-> NoPos, Lit |-> lit]
ArrayExpr(exprs) == [k |-> "Array", pos |-> NoPos, Exprs |-> exprs]
PairExpr(key, v) == [k |-> "Pair", pos |-> NoPos, Key |-> key, Value |-> v]
MapExpr(m) == [k |-> "Map", pos |-> NoPos, MapExpr |-> m]
IdentExpr(id) == [k |-> "Ident", pos |-> NoPos, Id |-> id]
UnaryExpr(op, e) == [k |-> "Unary", pos |-> NoPos, Operator |-> op, Expr |-> e]
AddrExpr(e) == [k |-> "Addr", pos |-> NoPos, Expr |-> e]
DerefExpr(e) == [k |-> "Deref", pos |-> NoPos, Expr |-> e]
ParenExpr(e) == [k |-> "Paren", pos |-> NoPos, SubExpr |-> e]
BinOpExpr(lhss, op, rhss) ==
  [k |-> "BinOp", pos |-> NoPos, Lhss |-> lhss, Operator |-> op, Rhss |-> rhss]
TernaryOpExpr(c, l, r) ==
  [k |-> "Ternary", pos |-> NoPos, Expr |-> c, Lhs |-> l, Rhs |-> r]
CallExpr(name, subs, varArg, go) ==
  [k |-> "Call", pos |-> NoPos, Name |-> name, SubExprs |-> subs,
   VarArg |-> varArg, Go |-> go]
AnonCallExpr(e, subs, varArg, go) ==
  [k |-> "AnonCall", pos |-> NoPos, Expr |-> e, SubExprs |-> subs,
   VarArg |-> varArg, Go |-> go]
MemberExpr(e, name) == [k |-> "Member", pos |-> NoPos, Expr |-> e, Name |-> name]
ItemExpr(v, i) == [k |-> "Item", pos |-> NoPos, Value |-> v, Index |-> i]
SliceExpr(v, b, e) ==
  [k |-> "Slice", pos |-> NoPos, Value |-> v, Begin |-> b, End |-> e]
FuncExpr(name, stmts, args, varArg) ==
  [k |-> "Func", pos |-> NoPos, Name |-> name, Stmts |-> stmts,
   Args |-> args, VarArg |-> varArg]
ConstExpr(v) == [k |-> "Const", pos |-> NoPos, Value |-> v]

\* strings.ToLower over the constant spellings the lexer produces; the
\* Russian keywords are written in transliteration (istina, lozh).
ToLower(s) ==
  CASE s \in {"true", "True", "TRUE"} -> "true"
    [] s \in {"false", "False"} -> "false"
    [] s \in {"istina", "Istina"} -> "istina"
    [] s \in {"lozh", "Lozh"} -> "lozh"
    [] s \in {"null", "NULL"} -> "null"
    [] s \in {"nil", "Nil"} -> "nil"
    [] OTHER -> s
LetExpr(l, r) == [k |-> "Let", pos |-> NoPos, Lhs |-> l, Rhs |-> r]
ChanExpr(l, r) == [k |-> "Chan", pos |-> NoPos, Lhs |-> l, Rhs |-> r]
TypeCast(type, te, ce) ==
  [k |-> "TypeCast", pos |-> NoPos, Type |-> type, TypeExpr |-> te,
   CastExpr |-> ce]
MakeExpr(type, te) == [k |-> "Make", pos |-> NoPos, Type |-> type, TypeExpr |-> te]
MakeChanExpr(se) == [k |-> "MakeChan", pos |-> NoPos, SizeExpr |-> se]
MakeArrayExpr(le, ce) ==
  [k |-> "MakeArray", pos |-> NoPos, LenExpr |-> le, CapExpr |-> ce]
\* &NativeExpr{Value: v}: the embedded ExprImpl is zero, the span is empty.
NativeExpr(v) == [k |-> "Native", pos |-> NoPos, Value |-> v]

IsNative(e) == e.k = "Native"
\* The variants that implement CanLetExpr (have a BinLetTo method).
IsCanLetExpr(e) == e.k \in {"Ident", "Member", "Item", "Slice"}

(***************************************************************************)
(* Simplify.  A result is [ok, e]: ok = FALSE is a run-time panic of the   *)
(* Go code (nil dereference, failed type assertion, index out of range),   *)
(* which unwinds through every enclosing Simplify.                         *)
(***************************************************************************)
Return(e) == [ok |-> TRUE, e |-> e]
Panic == [ok |-> FALSE, e |-> Nil]

RECURSIVE Simplify(_)

\* x.F = x.F.Simplify() for a list of children, in order.
SimplifyAll(exprs) ==
  LET rs == [i \in DOMAIN exprs |-> Simplify(exprs[i])]
  IN [ok |-> \A i \in DOMAIN exprs : rs[i].ok,
      es |-> [i \in DOMAIN exprs |-> rs[i].e]]

NoneExprSimplify(x) == Return(x)

NumberExprSimplify(x) ==
  IF ContainsDotOrExp(x.Lit)
  THEN LET v == VMDecimalParse(x.Lit)
       IN IF v.err THEN Return(x) ELSE Return(NativeExpr(v.v))
  ELSE LET v == VMIntParse(x.Lit)
       IN IF v.err THEN Return(x) ELSE Return(NativeExpr(v.v))

StringExprSimplify(x) == Return(NativeExpr(VMString(x.Lit)))

ArrayExprSimplify(x) ==
  LET r == SimplifyAll(x.Exprs)
      waserrors == \E i \in DOMAIN r.es : ~IsNative(r.es[i])
  IN IF ~r.ok THEN Panic
     ELSE IF waserrors THEN Return([x EXCEPT !.Exprs = r.es])
     ELSE Return(NativeExpr(VMSlice([i \in DOMAIN r.es |-> r.es[i].Value])))

PairExprSimplify(x) ==
  LET v == Simplify(x.Value)
  IN IF ~v.ok THEN Panic ELSE Return([x EXCEPT !.Value = v.e])

\* The result does not depend on the iteration order of the Go map.
MapExprSimplify(x) ==
  LET rs == [key \in DOMAIN x.MapExpr |-> Simplify(x.MapExpr[key])]
      vs == [key \in DOMAIN x.MapExpr |-> rs[key].e]
      waserrors == \E key \in DOMAIN vs : ~IsNative(vs[key])
  IN IF \E key \in DOMAIN rs : ~rs[key].ok THEN Panic
     ELSE IF waserrors THEN Return([x EXCEPT !.MapExpr = vs])
     ELSE Return(NativeExpr(VMStringMap([key \in DOMAIN vs |-> vs[key].Value])))

IdentExprSimplify(x) == Return(x)

\* `if vv := v.Value.(core.VMUnarer); ok` is the one-result form of the
\* type assertion: it panics when the value is not a VMUnarer, and the ok
\* it tests is the one of the enclosing `x.Expr.(*NativeExpr)`.
UnaryExprSimplify(x) ==
  LET c == Simplify(x.Expr)
      x1 == [x EXCEPT !.Expr = c.e]
  IN IF ~c.ok THEN Panic
     ELSE IF IsNative(c.e)
          THEN IF ~IsVMUnarer(c.e.Value) THEN Panic
               ELSE LET rv == EvalUnOp(c.e.Value, x.Operator)
                    IN IF ~rv.err THEN Return(NativeExpr(rv.v)) ELSE Return(x1)
          ELSE Return(x1)

AddrExprSimplify(x) ==
  LET c == Simplify(x.Expr)
  IN IF ~c.ok THEN Panic ELSE Return([x EXCEPT !.Expr = c.e])

DerefExprSimplify(x) ==
  LET c == Simplify(x.Expr)
  IN IF ~c.ok THEN Panic ELSE Return([x EXCEPT !.Expr = c.e])

\* Mutant: the test for a folded operand looks at the operand as it was
\* before it was simplified.
ParenExprSimplify_Stale(x) ==
  LET c == Simplify(x.SubExpr)
  IN IF ~c.ok THEN Panic
     ELSE IF IsNative(x.SubExpr) THEN Return(c.e)
     ELSE Return([x EXCEPT !.SubExpr = c.e])

ParenExprSimplify(x) ==
  LET c == Simplify(x.SubExpr)
  IN IF ~c.ok THEN Panic
     ELSE IF IsNative(c.e) THEN Return(c.e)
     ELSE Return([x EXCEPT !.SubExpr = c.e])

\* BinOpExprSimplify returning the node with the operands it had before
\* they were simplified when nothing is folded.
BinOpExprSimplify_KeepOperands(x) ==
  LET l == SimplifyAll(x.Lhss)
      r == SimplifyAll(x.Rhss)
      allnative == /\ \A i \in DOMAIN l.es : IsNative(l.es[i])
                   /\ \A i \in DOMAIN r.es : IsNative(r.es[i])
  IN IF ~l.ok \/ ~r.ok THEN Panic
     ELSE IF Len(l.es) = 1 /\ Len(r.es) = 1 /\ allnative
               /\ IsVMOperationer(l.es[1].Value)
               /\ IsVMOperationer(r.es[1].Value)
          THEN LET rv == EvalBinOp(l.es[1].Value, OperMap[x.Operator],
                                   r.es[1].Value)
               IN IF ~rv.err THEN Return(NativeExpr(rv.v)) ELSE Return(x)
          ELSE Return(x)

BinOpExprSimplify(x) ==
  LET l == SimplifyAll(x.Lhss)
      r == SimplifyAll(x.Rhss)
      x1 == [x EXCEPT !.Lhss = l.es, !.Rhss = r.es]
      allnative == /\ \A i \in DOMAIN l.es : IsNative(l.es[i])
                   /\ \A i \in DOMAIN r.es : IsNative(r.es[i])
  IN IF ~l.ok \/ ~r.ok THEN Panic
     ELSE IF Len(l.es) = 1 /\ Len(r.es) = 1 /\ allnative
               /\ IsVMOperationer(l.es[1].Value)
               /\ IsVMOperationer(r.es[1].Value)
          THEN LET rv == EvalBinOp(l.es[1].Value, OperMap[x.Operator],
                                   r.es[1].Value)
               IN IF ~rv.err THEN Return(NativeExpr(rv.v)) ELSE Return(x1)
          ELSE Return(x1)

\* x.Lhs and x.Rhs are both assigned from x.Expr.Simplify(): the two
\* branches of the node are overwritten by the simplified condition.
TernaryOpExprSimplify(x) ==
  LET c == Simplify(x.Expr)
      l == Simplify(c.e)
      r == Simplify(c.e)
      x1 == [x EXCEPT !.Expr = c.e, !.Lhs = l.e, !.Rhs = r.e]
  IN IF ~c.ok THEN Panic
     ELSE IF ~l.ok \/ ~r.ok THEN Panic
     ELSE IF IsNative(c.e) /\ IsVMBooler(c.e.Value)
          THEN IF c.e.Value.b THEN Return(l.e) ELSE Return(r.e)
          ELSE Return(x1)

CallExprSimplify(x) ==
  LET r == SimplifyAll(x.SubExprs)
  IN IF ~r.ok THEN Panic ELSE Return([x EXCEPT !.SubExprs = r.es])

AnonCallExprSimplify(x) ==
  LET c == Simplify(x.Expr)
      r == SimplifyAll(x.SubExprs)
  IN IF ~c.ok \/ ~r.ok THEN Panic
     ELSE Return([x EXCEPT !.Expr = c.e, !.SubExprs = r.es])

MemberExprSimplify(x) ==
  LET c == Simplify(x.Expr)
  IN IF ~c.ok THEN Panic ELSE Return([x EXCEPT !.Expr = c.e])

\* vv.Slice()[ii.Int()] panics when the index is outside the slice; a key
\* missing from the map yields the nil interface value.
ItemExprSimplify(x) ==
  LET v == Simplify(x.Value)
      i == Simplify(x.Index)
      x1 == [x EXCEPT !.Value = v.e, !.Index = i.e]
  IN IF ~v.ok \/ ~i.ok THEN Panic
     ELSE IF IsNative(v.e) /\ IsNative(i.e)
          THEN IF IsVMSlicer(v.e.Value) /\ i.e.Value.t = "Int"
               THEN IF i.e.Value.i < 0 \/ i.e.Value.i >= Len(v.e.Value.elems)
                    THEN Panic
                    ELSE Return(NativeExpr(v.e.Value.elems[i.e.Value.i + 1]))
               ELSE IF IsVMStringMaper(v.e.Value) /\ i.e.Value.t = "Str"
               THEN IF i.e.Value.s \in DOMAIN v.e.Value.m
                    THEN Return(NativeExpr(v.e.Value.m[i.e.Value.s]))
                    ELSE Return(NativeExpr(GoNil))
               ELSE Return(x1)
          ELSE Return(x1)

\* vv.Slice()[b:e] panics unless 0 <= b <= e <= cap.
SliceExprSimplify(x) ==
  LET v == Simplify(x.Value)
      b == Simplify(x.Begin)
      e == Simplify(x.End)
      x1 == [x EXCEPT !.Value = v.e, !.Begin = b.e, !.End = e.e]
  IN IF ~v.ok \/ ~b.ok \/ ~e.ok THEN Panic
     ELSE IF /\ IsNative(v.e) /\ IsNative(b.e) /\ IsNative(e.e)
             /\ IsVMSlicer(v.e.Value)
             /\ b.e.Value.t = "Int" /\ e.e.Value.t = "Int"
          THEN IF \/ b.e.Value.i < 0 \/ e.e.Value.i > Len(v.e.Value.elems)
                  \/ b.e.Value.i > e.e.Value.i
               THEN Panic
               ELSE Return(NativeExpr(VMSlice(
                      SubSeq(v.e.Value.elems, b.e.Value.i + 1, e.e.Value.i))))
          ELSE Return(x1)

\* Stmt.Simplify of the statements of a function body: it does not fold
\* the expressions nested in the statements.
StmtSimplify(s) == s

FuncExprSimplify(x) ==
  Return([x EXCEPT !.Stmts = [i \in DOMAIN x.Stmts |-> StmtSimplify(x.Stmts[i])]])

LetExprSimplify(x) ==
  LET l == Simplify(x.Lhs)
      r == Simplify(x.Rhs)
  IN IF ~l.ok \/ ~r.ok THEN Panic
     ELSE Return([x EXCEPT !.Lhs = l.e, !.Rhs = r.e])

ConstExprSimplify(x) ==
  CASE ToLower(x.Value) \in {"istina", "true"} -> Return(NativeExpr(VMBool(TRUE)))
    [] ToLower(x.Value) \in {"lozh", "false"} -> Return(NativeExpr(VMBool(FALSE)))
    [] ToLower(x.Value) = "null" -> Return(NativeExpr(VMNullVar))
    [] OTHER -> Return(x)

ChanExprSimplify(x) ==
  LET l == Simplify(x.Lhs)
      r == Simplify(x.Rhs)
  IN IF ~l.ok \/ ~r.ok THEN Panic
     ELSE Return([x EXCEPT !.Lhs = l.e, !.Rhs = r.e])

TypeCastSimplify(x) ==
  LET t == Simplify(x.TypeExpr)
      c == Simplify(x.CastExpr)
  IN IF ~t.ok \/ ~c.ok THEN Panic
     ELSE Return([x EXCEPT !.TypeExpr = t.e, !.CastExpr = c.e])

MakeExprSimplify(x) ==
  LET t == Simplify(x.TypeExpr)
  IN IF ~t.ok THEN Panic ELSE Return([x EXCEPT !.TypeExpr = t.e])

MakeChanExprSimplify(x) ==
  LET s == Simplify(x.SizeExpr)
  IN IF ~s.ok THEN Panic ELSE Return([x EXCEPT !.SizeExpr = s.e])

MakeArrayExprSimplify(x) ==
  LET l == Simplify(x.LenExpr)
      c == Simplify(x.CapExpr)
  IN IF ~l.ok \/ ~c.ok THEN Panic
     ELSE Return([x EXCEPT !.LenExpr = l.e, !.CapExpr = c.e])

NativeExprSimplify(x) == Return(x)

\* Method dispatch; calling a method of the nil interface value panics.
Simplify(x) ==
  CASE x.k = "nil" -> Panic
    [] x.k = "None" -> NoneExprSimplify(x)
    [] x.k = "Number" -> NumberExprSimplify(x)
    [] x.k = "String" -> StringExprSimplify(x)
    [] x.k = "Array" -> ArrayExprSimplify(x)
    [] x.k = "Pair" -> PairExprSimplify(x)
    [] x.k = "Map" -> MapExprSimplify(x)
    [] x.k = "Ident" -> IdentExprSimplify(x)
    [] x.k = "Unary" -> UnaryExprSimplify(x)
    [] x.k = "Addr" -> AddrExprSimplify(x)
    [] x.k = "Deref" -> DerefExprSimplify(x)
    [] x.k = "Paren" -> ParenExprSimplify(x)
    [] x.k = "BinOp" -> BinOpExprSimplify(x)
    [] x.k = "Ternary" -> TernaryOpExprSimplify(x)
    [] x.k = "Call" -> CallExprSimplify(x)
    [] x.k = "AnonCall" -> AnonCallExprSimplify(x)
    [] x.k = "Member" -> MemberExprSimplify(x)
    [] x.k = "Item" -> ItemExprSimplify(x)
    [] x.k = "Slice" -> SliceExprSimplify(x)
    [] x.k = "Func" -> FuncExprSimplify(x)
    [] x.k = "Let" -> LetExprSimplify(x)
    [] x.k = "Const" -> ConstExprSimplify(x)
    [] x.k = "Chan" -> ChanExprSimplify(x)
    [] x.k = "TypeCast" -> TypeCastSimplify(x)
    [] x.k = "Make" -> MakeExprSimplify(x)
    [] x.k = "MakeChan" -> MakeChanExprSimplify(x)
    [] x.k = "MakeArray" -> MakeArrayExprSimplify(x)
    [] x.k = "Native" -> NativeExprSimplify(x)

(***************************************************************************)
(* Instructions (package binstmt): the constructors called by the          *)
(* lowering, with their arguments in call order; the last argument is the  *)
(* node whose span the instruction carries.                                *)
(***************************************************************************)
NewBinLOAD(reg, val, imm, e) ==
  [op |-> "LOAD", Reg |-> reg, Val |-> val, IsId |-> imm, pos |-> e.pos]
NewBinCASTNUM(reg, e) == [op |-> "CASTNUM", Reg |-> reg, pos |-> e.pos]
NewBinMAKESLICE(reg, len, cap, e) ==
  [op |-> "MAKESLICE", Reg |-> reg, Len |-> len, Cap |-> cap, pos |-> e.pos]
NewBinSETIDX(reg, i, regval, e) ==
  [op |-> "SETIDX", Reg |-> reg, Index |-> i, RegVal |-> regval, pos |-> e.pos]
NewBinMAKEMAP(reg, len, e) ==
  [op |-> "MAKEMAP", Reg |-> reg, Len |-> len, pos |-> e.pos]
NewBinSETKEY(reg, regval, key, e) ==
  [op |-> "SETKEY", Reg |-> reg, RegVal |-> regval, Key |-> key, pos |-> e.pos]
NewBinSET(reg, id, e) == [op |-> "SET", Reg |-> reg, Id |-> id, pos |-> e.pos]
NewBinGET(reg, id, e) == [op |-> "GET", Reg |-> reg, Id |-> id, pos |-> e.pos]
NewBinUNARY(reg, oper, e) ==
  [op |-> "UNARY", Reg |-> reg, Op |-> oper, pos |-> e.pos]
NewBinADDRID(reg, id, e) == [op |-> "ADDRID", Reg |-> reg, Name |-> id, pos |-> e.pos]
NewBinADDRMBR(reg, name, e) ==
  [op |-> "ADDRMBR", Reg |-> reg, Name |-> name, pos |-> e.pos]
NewBinUNREFID(reg, id, e) ==
  [op |-> "UNREFID", Reg |-> reg, Name |-> id, pos |-> e.pos]
NewBinUNREFMBR(reg, name, e) ==
  [op |-> "UNREFMBR", Reg |-> reg, Name |-> name, pos |-> e.pos]
NewBinJTRUE(reg, lab, e) == [op |-> "JTRUE", Reg |-> reg, JumpTo |-> lab, pos |-> e.pos]
NewBinJFALSE(reg, lab, e) ==
  [op |-> "JFALSE", Reg |-> reg, JumpTo |-> lab, pos |-> e.pos]
NewBinJMP(lab, e) == [op |-> "JMP", JumpTo |-> lab, pos |-> e.pos]
NewBinLABEL(lab, e) == [op |-> "LABEL", Label |-> lab, pos |-> e.pos]
NewBinOPER(regl, regr, oper, e) ==
  [op |-> "OPER", RegL |-> regl, RegR |-> regr, Op |-> oper, pos |-> e.pos]
NewBinCALL(name, numargs, regargs, regret, varArg, go, e) ==
  [op |-> "CALL", Name |-> name, NumArgs |-> numargs, RegArgs |-> regargs,
   RegRets |-> regret, VarArg |-> varArg, Go |-> go, pos |-> e.pos]
NewBinSETMEMBER(reg, name, regval, e) ==
  [op |-> "SETMEMBER", Reg |-> reg, Name |-> name, RegVal |-> regval,
   pos |-> e.pos]
NewBinGETMEMBER(reg, name, e) ==
  [op |-> "GETMEMBER", Reg |-> reg, Name |-> name, pos |-> e.pos]
NewBinSETITEM(reg, regindex, regval, regneedlet, e) ==
  [op |-> "SETITEM", Reg |-> reg, RegIndex |-> regindex, RegVal |-> regval,
   RegNeedLet |-> regneedlet, pos |-> e.pos]
NewBinGETIDX(reg, regindex, e) ==
  [op |-> "GETIDX", Reg |-> reg, RegIndex |-> regindex, pos |-> e.pos]
NewBinSETSLICE(reg, regbegin, regend, regval, regneedlet, e) ==
  [op |-> "SETSLICE", Reg |-> reg, RegBegin |-> regbegin, RegEnd |-> regend,
   RegVal |-> regval, RegNeedLet |-> regneedlet, pos |-> e.pos]
NewBinGETSUBSLICE(reg, regbegin, regend, e) ==
  [op |-> "GETSUBSLICE", Reg |-> reg, RegBegin |-> regbegin, RegEnd |-> regend,
   pos |-> e.pos]
NewBinFUNC(reg, name, args, varArg, lstart, lend, e) ==
  [op |-> "FUNC", Reg |-> reg, Name |-> name, Args |-> args, VarArg |-> varArg,
   LabelStart |-> lstart, LabelEnd |-> lend, pos |-> e.pos]
NewBinCHANRECV(reg, regval, e) ==
  [op |-> "CHANRECV", Reg |-> reg, RegVal |-> regval, pos |-> e.pos]
NewBinCHANSEND(reg, regval, e) ==
  [op |-> "CHANSEND", Reg |-> reg, RegVal |-> regval, pos |-> e.pos]
NewBinMV(regfrom, regto, e) ==
  [op |-> "MV", RegFrom |-> regfrom, RegTo |-> regto, pos |-> e.pos]
NewBinISKIND(reg, kind, e) ==
  [op |-> "ISKIND", Reg |-> reg, Kind |-> kind, pos |-> e.pos]
NewBinSETNAME(reg, e) == [op |-> "SETNAME", Reg |-> reg, pos |-> e.pos]
NewBinCASTTYPE(reg, typereg, e) ==
  [op |-> "CASTTYPE", Reg |-> reg, TypeReg |-> typereg, pos |-> e.pos]
NewBinMAKE(reg, e) == [op |-> "MAKE", Reg |-> reg, pos |-> e.pos]
NewBinMAKECHAN(reg, e) == [op |-> "MAKECHAN", Reg |-> reg, pos |-> e.pos]
NewBinMAKEARR(reg, regcap, e) ==
  [op |-> "MAKEARR", Reg |-> reg, RegCap |-> regcap, pos |-> e.pos]

(***************************************************************************)
(* Lowering.  BinTo(e, reg, lid, inStmt, ord) is the effect of             *)
(* e.BinTo(bins, reg, &lid, inStmt): the instructions appended to bins,    *)
(* the final value of the label counter, and ok = FALSE when the call      *)
(* panicked (the instructions appended before the panic stay in bins).     *)
(* ord gives, for every map literal (by span), the order in which the Go   *)
(* runtime happens to range over its keys.                                 *)
(***************************************************************************)
Emit(lid, ins) ==
  [ok |-> TRUE, bins |-> <<ins>>, lid |-> lid, err |-> [kind |-> "none"]]
Skip(lid) == [ok |-> TRUE, bins |-> <<>>, lid |-> lid, err |-> [kind |-> "none"]]
\* A panic of the Go runtime (failed type assertion, nil dereference).
PanicAt(lid) ==
  [ok |-> FALSE, bins |-> <<>>, lid |-> lid, err |-> [kind |-> "runtime"]]
\* binstmt.NewStringError(e, msg): the error value of an explicit panic,
\* which carries the node it is raised for.  The messages are
\* transliterated.
NewStringError(e, msg) == [kind |-> "StringError", pos |-> e.pos, msg |-> msg]
\* a; b -- b does not run when a panicked
Cat(a, b) ==
  IF a.ok THEN [ok |-> b.ok, bins |-> a.bins \o b.bins, lid |-> b.lid, err |-> b.err]
  ELSE a

RECURSIVE BinTo(_, _, _, _, _)
RECURSIVE BinLetTo(_, _, _, _)

NoneExprBinTo(e, reg, lid, inStmt, ord) ==
  Emit(lid, NewBinLOAD(reg, GoNil, FALSE, e))

NumberExprBinTo(e, reg, lid, inStmt, ord) ==
  Cat(Emit(lid, NewBinLOAD(reg, VMString(e.Lit), FALSE, e)),
      Emit(lid, NewBinCASTNUM(reg, e)))

StringExprBinTo(e, reg, lid, inStmt, ord) ==
  Emit(lid, NewBinLOAD(reg, VMString(e.Lit), FALSE, e))

\* for i, ee := range e.Exprs, from element i on
RECURSIVE ArrayExprLoop(_, _, _, _, _)
ArrayExprLoop(e, i, reg, lid, ord) ==
  IF i > Len(e.Exprs) THEN Skip(lid)
  ELSE LET ee == e.Exprs[i]
           a == BinTo(ee, reg + 1, lid, FALSE, ord)
       IN Cat(a, Cat(Emit(a.lid, NewBinSETIDX(reg, i - 1, reg + 1, ee)),
                     ArrayExprLoop(e, i + 1, reg, a.lid, ord)))

ArrayExprBinTo(e, reg, lid, inStmt, ord) ==
  Cat(Emit(lid, NewBinMAKESLICE(reg, Len(e.Exprs), Len(e.Exprs), e)),
      ArrayExprLoop(e, 1, reg, lid, ord))

PairExprBinTo(e, reg, lid, inStmt, ord) == Skip(lid)

\* for k, ee := range e.MapExpr, visiting the keys in the order keys
RECURSIVE MapExprLoop(_, _, _, _, _, _)
MapExprLoop(e, keys, i, reg, lid, ord) ==
  IF i > Len(keys) THEN Skip(lid)
  ELSE LET ee == e.MapExpr[keys[i]]
           a == BinTo(ee, reg + 1, lid, FALSE, ord)
       IN Cat(a, Cat(Emit(a.lid, NewBinSETKEY(reg, reg + 1, keys[i], ee)),
                     MapExprLoop(e, keys, i + 1, reg, a.lid, ord)))

MapExprBinTo(e, reg, lid, inStmt, ord) ==
  Cat(Emit(lid, NewBinMAKEMAP(reg, Cardinality(DOMAIN e.MapExpr), e)),
      MapExprLoop(e, ord[e.pos], 1, reg, lid, ord))

IdentExprBinLetTo(e, reg, lid, ord) == Emit(lid, NewBinSET(reg, e.Id, e))

IdentExprBinTo(e, reg, lid, inStmt, ord) == Emit(lid, NewBinGET(reg, e.Id, e))

\* UnaryExprBinTo handing its own inStmt down to its operand.
UnaryExprBinTo_InStmt(e, reg, lid, inStmt, ord) ==
  LET a == BinTo(e.Expr, reg, lid, inStmt, ord)
  IN Cat(a, Emit(a.lid, NewBinUNARY(reg, e.Operator, e)))

UnaryExprBinTo(e, reg, lid, inStmt, ord) ==
  LET a == BinTo(e.Expr, reg, lid, FALSE, ord)
  IN Cat(a, Emit(a.lid, NewBinUNARY(reg, e.Operator, e)))

AddrExprBinTo(e, reg, lid, inStmt, ord) ==
  CASE e.Expr.k = "Ident" -> Emit(lid, NewBinADDRID(reg, e.Expr.Id, e))
    [] e.Expr.k = "Member" ->
         LET a == BinTo(e.Expr.Expr, reg, lid, FALSE, ord)
         IN Cat(a, Emit(a.lid, NewBinADDRMBR(reg, e.Expr.Name, e)))
    [] OTHER ->
         [PanicAt(lid) EXCEPT
            !.err = NewStringError(e, "Nevernaya operaciya nad znacheniem")]

\* Mutant: the operand is lowered before its shape is rejected.
DerefExprBinTo_EmitFirst(e, reg, lid, inStmt, ord) ==
  CASE e.Expr.k = "Ident" -> Emit(lid, NewBinUNREFID(reg, e.Expr.Id, e))
    [] e.Expr.k = "Member" ->
         LET a == BinTo(e.Expr.Expr, reg, lid, FALSE, ord)
         IN Cat(a, Emit(a.lid, NewBinUNREFMBR(reg, e.Expr.Name, e)))
    [] OTHER ->
         LET a == BinTo(e.Expr, reg, lid, FALSE, ord)
         IN Cat(a, [PanicAt(a.lid) EXCEPT
                      !.err = NewStringError(e, "Nevernaya operaciya nad znacheniem")])

DerefExprBinTo(e, reg, lid, inStmt, ord) ==
  CASE e.Expr.k = "Ident" -> Emit(lid, NewBinUNREFID(reg, e.Expr.Id, e))
    [] e.Expr.k = "Member" ->
         LET a == BinTo(e.Expr.Expr, reg, lid, FALSE, ord)
         IN Cat(a, Emit(a.lid, NewBinUNREFMBR(reg, e.Expr.Name, e)))
    [] OTHER ->
         [PanicAt(lid) EXCEPT
            !.err = NewStringError(e, "Nevernaya operaciya nad znacheniem")]

\* Mutant: the statement flag is handed down to the operand.
ParenExprBinTo_InStmt(e, reg, lid, inStmt, ord) ==
  BinTo(e.SubExpr, reg, lid, inStmt, ord)

ParenExprBinTo(e, reg, lid, inStmt, ord) ==
  BinTo(e.SubExpr, reg, lid, FALSE, ord)

\* LetsStmt.BinTo for lists of equal length: every right side is lowered
\* into its own temporary reg+1, reg+2, ..., then every left side is
\* assigned from its temporary through BinLetTo.
RECURSIVE LetsRhsLoop(_, _, _, _, _)
LetsRhsLoop(rhss, i, reg, lid, ord) ==
  IF i > Len(rhss) THEN Skip(lid)
  ELSE LET a == BinTo(rhss[i], reg + i, lid, FALSE, ord)
       IN Cat(a, LetsRhsLoop(rhss, i + 1, reg, a.lid, ord))

RECURSIVE LetsLhsLoop(_, _, _, _, _)
LetsLhsLoop(lhss, i, reg, lid, ord) ==
  IF i > Len(lhss) THEN Skip(lid)
  ELSE IF ~IsCanLetExpr(lhss[i]) THEN PanicAt(lid)
  ELSE LET a == BinLetTo(lhss[i], reg + i, lid, ord)
       IN Cat(a, LetsLhsLoop(lhss, i + 1, reg, a.lid, ord))

LetsStmtBinTo(lhss, rhss, reg, lid, ord) ==
  IF Len(lhss) # Len(rhss) \/ Len(lhss) = 0 THEN PanicAt(lid)
  ELSE LET r == LetsRhsLoop(rhss, 1, reg, lid, ord)
       IN Cat(r, LetsLhsLoop(lhss, 1, reg, r.lid, ord))

\* Mutant: `&&` tests its left operand with JTRUE.
BinOpExprBinTo_AndJTrue(e, reg, lid, inStmt, ord) ==
  LET oper == OperMap[e.Operator]
  IN IF inStmt /\ oper = "EQL"
     THEN LetsStmtBinTo(e.Lhss, e.Rhss, reg, lid, ord)
     ELSE IF Len(e.Lhss) # 1 \/ Len(e.Rhss) # 1
          THEN [PanicAt(lid) EXCEPT
                  !.err = NewStringError(e, "S kazhdoj storony operacii mozhet byt tolko odno vyrazhenie")]
     ELSE LET l == BinTo(e.Lhss[1], reg, lid, FALSE, ord)
              lab == l.lid + 1
          IN CASE oper \in {"LOR", "LAND"} ->
                    LET r == BinTo(e.Rhss[1], reg, lab, FALSE, ord)
                    IN Cat(l, Cat(Emit(lab, NewBinJTRUE(reg, lab, e)),
                           Cat(r, Emit(r.lid, NewBinLABEL(lab, e)))))
               [] OTHER ->
                    LET r == BinTo(e.Rhss[1], reg + 1, l.lid, FALSE, ord)
                    IN Cat(l, Cat(r, Emit(r.lid,
                                          NewBinOPER(reg, reg + 1, oper, e))))

BinOpExprBinTo(e, reg, lid, inStmt, ord) ==
  LET oper == OperMap[e.Operator]
  IN IF inStmt /\ oper = "EQL"
     THEN LetsStmtBinTo(e.Lhss, e.Rhss, reg, lid, ord)
     ELSE IF Len(e.Lhss) # 1 \/ Len(e.Rhss) # 1
          THEN [PanicAt(lid) EXCEPT
                  !.err = NewStringError(e, "S kazhdoj storony operacii mozhet byt tolko odno vyrazhenie")]
     ELSE LET l == BinTo(e.Lhss[1], reg, lid, FALSE, ord)
              lab == l.lid + 1
          IN CASE oper = "LOR" ->
                    LET r == BinTo(e.Rhss[1], reg, lab, FALSE, ord)
                    IN Cat(l, Cat(Emit(lab, NewBinJTRUE(reg, lab, e)),
                           Cat(r, Emit(r.lid, NewBinLABEL(lab, e)))))
               [] oper = "LAND" ->
                    LET r == BinTo(e.Rhss[1], reg, lab, FALSE, ord)
                    IN Cat(l, Cat(Emit(lab, NewBinJFALSE(reg, lab, e)),
                           Cat(r, Emit(r.lid, NewBinLABEL(lab, e)))))
               [] OTHER ->
                    LET r == BinTo(e.Rhss[1], reg + 1, l.lid, FALSE, ord)
                    IN Cat(l, Cat(r, Emit(r.lid,
                                          NewBinOPER(reg, reg + 1, oper, e))))

\* Mutant: the end label reuses the counter without incrementing it.
TernaryOpExprBinTo_NoIncr(e, reg, lid, inStmt, ord) ==
  LET c == BinTo(e.Expr, reg, lid, FALSE, ord)
      lab == c.lid + 1
      l == BinTo(e.Lhs, reg, lab, FALSE, ord)
      lend == l.lid
      r == BinTo(e.Rhs, reg, lend, FALSE, ord)
  IN Cat(c, Cat(Emit(lab, NewBinJFALSE(reg, lab, e)),
         Cat(l, Cat(Emit(lend, NewBinJMP(lend, e)),
         Cat(Emit(lend, NewBinLABEL(lab, e)),
         Cat(r, Emit(r.lid, NewBinLABEL(lend, e))))))))

\* Mutant: the condition is tested with JTRUE.
TernaryOpExprBinTo_JTrue(e, reg, lid, inStmt, ord) ==
  LET c == BinTo(e.Expr, reg, lid, FALSE, ord)
      lab == c.lid + 1
      l == BinTo(e.Lhs, reg, lab, FALSE, ord)
      lend == l.lid + 1
      r == BinTo(e.Rhs, reg, lend, FALSE, ord)
  IN Cat(c, Cat(Emit(lab, NewBinJTRUE(reg, lab, e)),
         Cat(l, Cat(Emit(lend, NewBinJMP(lend, e)),
         Cat(Emit(lend, NewBinLABEL(lab, e)),
         Cat(r, Emit(r.lid, NewBinLABEL(lend, e))))))))

TernaryOpExprBinTo(e, reg, lid, inStmt, ord) ==
  LET c == BinTo(e.Expr, reg, lid, FALSE, ord)
      lab == c.lid + 1
      l == BinTo(e.Lhs, reg, lab, FALSE, ord)
      lend == l.lid + 1
      r == BinTo(e.Rhs, reg, lend, FALSE, ord)
  IN Cat(c, Cat(Emit(lab, NewBinJFALSE(reg, lab, e)),
         Cat(l, Cat(Emit(lend, NewBinJMP(lend, e)),
         Cat(Emit(lend, NewBinLABEL(lab, e)),
         Cat(r, Emit(r.lid, NewBinLABEL(lend, e))))))))

\* Mutant: every argument is lowered into the register of the slice.
RECURSIVE CallExprLoop_IntoBase(_, _, _, _, _, _, _)
CallExprLoop_IntoBase(e, i, reg, regoff, sliceoff, lid, ord) ==
  IF i > Len(e.SubExprs) THEN Skip(lid)
  ELSE LET ee == e.SubExprs[i]
           a == BinTo(ee, reg + regoff, lid, FALSE, ord)
           st == IF sliceoff = 1
                 THEN Emit(a.lid, NewBinSETIDX(reg + regoff, i - 1,
                                               reg + regoff, ee))
                 ELSE Skip(a.lid)
       IN Cat(a, Cat(st, CallExprLoop_IntoBase(e, i + 1, reg, regoff, sliceoff,
                                               a.lid, ord)))

\* for i, ee := range e.SubExprs, from argument i on
RECURSIVE CallExprLoop(_, _, _, _, _, _, _)
CallExprLoop(e, i, reg, regoff, sliceoff, lid, ord) ==
  IF i > Len(e.SubExprs) THEN Skip(lid)
  ELSE LET ee == e.SubExprs[i]
           a == BinTo(ee, reg + sliceoff + regoff, lid, FALSE, ord)
           st == IF sliceoff = 1
                 THEN Emit(a.lid, NewBinSETIDX(reg + regoff, i - 1,
                                               reg + sliceoff + regoff, ee))
                 ELSE Skip(a.lid)
       IN Cat(a, Cat(st, CallExprLoop(e, i + 1, reg, regoff, sliceoff,
                                      a.lid, ord)))

\* Mutant: the CALL names the register of the first argument.
CallExprBinTo_ArgBase(e, reg, lid, inStmt, ord) ==
  LET regoff == IF e.Name = 0 THEN 1 ELSE 0
      sliceoff == IF Len(e.SubExprs) > 1 THEN 1 ELSE 0
      mk == IF Len(e.SubExprs) > 1
            THEN Emit(lid, NewBinMAKESLICE(reg + regoff, Len(e.SubExprs),
                                           Len(e.SubExprs), e))
            ELSE Skip(lid)
      args == CallExprLoop(e, 1, reg, regoff, sliceoff, lid, ord)
  IN Cat(mk, Cat(args, Emit(args.lid,
         NewBinCALL(e.Name, Len(e.SubExprs), reg + regoff, reg, e.VarArg,
                    e.Go, e))))

CallExprBinTo(e, reg, lid, inStmt, ord) ==
  LET regoff == IF e.Name = 0 THEN 1 ELSE 0
      sliceoff == IF Len(e.SubExprs) > 1 THEN 1 ELSE 0
      mk == IF Len(e.SubExprs) > 1
            THEN Emit(lid, NewBinMAKESLICE(reg + regoff, Len(e.SubExprs),
                                           Len(e.SubExprs), e))
            ELSE Skip(lid)
      args == CallExprLoop(e, 1, reg, regoff, sliceoff, lid, ord)
  IN Cat(mk, Cat(args, Emit(args.lid,
         NewBinCALL(e.Name, Len(e.SubExprs), reg, reg, e.VarArg, e.Go, e))))

\* The CallExpr built here has a zero ExprImpl: its span is empty.
AnonCallExprBinTo(e, reg, lid, inStmt, ord) ==
  LET f == BinTo(e.Expr, reg, lid, FALSE, ord)
  IN Cat(f, CallExprBinTo(CallExpr(0, e.SubExprs, e.VarArg, e.Go),
                          reg, f.lid, FALSE, ord))

MemberExprBinLetTo(e, reg, lid, ord) ==
  LET a == BinTo(e.Expr, reg + 1, lid, FALSE, ord)
  IN Cat(a, Emit(a.lid, NewBinSETMEMBER(reg + 1, e.Name, reg, e)))

MemberExprBinTo(e, reg, lid, inStmt, ord) ==
  LET a == BinTo(e.Expr, reg, lid, FALSE, ord)
  IN Cat(a, Emit(a.lid, NewBinGETMEMBER(reg, e.Name, e)))

\* Mutant: the index is lowered before the container.
ItemExprBinLetTo_IndexFirst(e, reg, lid, ord) ==
  LET lend == lid + 1
      i == BinTo(e.Index, reg + 2, lend, FALSE, ord)
      v == BinTo(e.Value, reg + 1, i.lid, FALSE, ord)
      ee == IF IsCanLetExpr(e.Value) THEN BinLetTo(e.Value, reg + 1, v.lid, ord)
            ELSE PanicAt(v.lid)
  IN Cat(i, Cat(v,
     Cat(Emit(v.lid, NewBinSETITEM(reg + 1, reg + 2, reg, reg + 3, e)),
     Cat(Emit(v.lid, NewBinJFALSE(reg + 3, lend, e)),
     Cat(ee, Emit(ee.lid, NewBinLABEL(lend, e)))))))

\* Mutant: the rebind is skipped when the flag is true.
ItemExprBinLetTo_JTrue(e, reg, lid, ord) ==
  LET lend == lid + 1
      v == BinTo(e.Value, reg + 1, lend, FALSE, ord)
      i == BinTo(e.Index, reg + 2, v.lid, FALSE, ord)
      ee == IF IsCanLetExpr(e.Value) THEN BinLetTo(e.Value, reg + 1, i.lid, ord)
            ELSE PanicAt(i.lid)
  IN Cat(v, Cat(i,
     Cat(Emit(i.lid, NewBinSETITEM(reg + 1, reg + 2, reg, reg + 3, e)),
     Cat(Emit(i.lid, NewBinJTRUE(reg + 3, lend, e)),
     Cat(ee, Emit(ee.lid, NewBinLABEL(lend, e)))))))

\* e.Value.(CanLetExpr) panics when the container is not assignable.
ItemExprBinLetTo(e, reg, lid, ord) ==
  LET lend == lid + 1
      v == BinTo(e.Value, reg + 1, lend, FALSE, ord)
      i == BinTo(e.Index, reg + 2, v.lid, FALSE, ord)
      ee == IF IsCanLetExpr(e.Value) THEN BinLetTo(e.Value, reg + 1, i.lid, ord)
            ELSE PanicAt(i.lid)
  IN Cat(v, Cat(i,
     Cat(Emit(i.lid, NewBinSETITEM(reg + 1, reg + 2, reg, reg + 3, e)),
     Cat(Emit(i.lid, NewBinJFALSE(reg + 3, lend, e)),
     Cat(ee, Emit(ee.lid, NewBinLABEL(lend, e)))))))

\* Mutant: the index is lowered into the register of the container.
ItemExprBinTo_IndexSameReg(e, reg, lid, inStmt, ord) ==
  LET v == BinTo(e.Value, reg, lid, FALSE, ord)
      i == BinTo(e.Index, reg, v.lid, FALSE, ord)
  IN Cat(v, Cat(i, Emit(i.lid, NewBinGETIDX(reg, reg + 1, e))))

ItemExprBinTo(e, reg, lid, inStmt, ord) ==
  LET v == BinTo(e.Value, reg, lid, FALSE, ord)
      i == BinTo(e.Index, reg + 1, v.lid, FALSE, ord)
  IN Cat(v, Cat(i, Emit(i.lid, NewBinGETIDX(reg, reg + 1, e))))

SliceExprBinLetTo(e, reg, lid, ord) ==
  LET lend == lid + 1
      v == BinTo(e.Value, reg + 1, lend, FALSE, ord)
      b == BinTo(e.Begin, reg + 2, v.lid, FALSE, ord)
      n == BinTo(e.End, reg + 3, b.lid, FALSE, ord)
      ee == IF IsCanLetExpr(e.Value) THEN BinLetTo(e.Value, reg + 1, n.lid, ord)
            ELSE PanicAt(n.lid)
  IN Cat(v, Cat(b, Cat(n,
     Cat(Emit(n.lid, NewBinSETSLICE(reg + 1, reg + 2, reg + 3, reg, reg + 4, e)),
     Cat(Emit(n.lid, NewBinJFALSE(reg + 4, lend, e)),
     Cat(ee, Emit(ee.lid, NewBinLABEL(lend, e))))))))

SliceExprBinTo(e, reg, lid, inStmt, ord) ==
  LET v == BinTo(e.Value, reg, lid, FALSE, ord)
      b == BinTo(e.Begin, reg + 1, v.lid, FALSE, ord)
      n == BinTo(e.End, reg + 2, b.lid, FALSE, ord)
  IN Cat(v, Cat(b, Cat(n, Emit(n.lid, NewBinGETSUBSLICE(reg, reg + 1, reg + 2, e)))))

\* Stmts.BinTo over a body of expression statements: each expression is
\* lowered into reg in statement context.
RECURSIVE StmtsBinTo(_, _, _, _, _)
StmtsBinTo(stmts, i, reg, lid, ord) ==
  IF i > Len(stmts) THEN Skip(lid)
  ELSE LET a == BinTo(stmts[i], reg, lid, TRUE, ord)
       IN Cat(a, StmtsBinTo(stmts, i + 1, reg, a.lid, ord))

\* FuncExprBinTo taking the end label from the counter it has not advanced.
FuncExprBinTo_SharedLabel(e, reg, lid, inStmt, ord) ==
  LET lstart == lid + 1
      lend == lid + 1
      body == StmtsBinTo(e.Stmts, 1, reg, lend, ord)
  IN Cat(Emit(lend, NewBinFUNC(reg, e.Name, e.Args, e.VarArg, lstart, lend, e)),
     Cat(Emit(lend, NewBinLABEL(lstart, e)),
     Cat(body, Emit(body.lid, NewBinLABEL(lend, e)))))

FuncExprBinTo(e, reg, lid, inStmt, ord) ==
  LET lstart == lid + 1
      lend == lid + 2
      body == StmtsBinTo(e.Stmts, 1, reg, lend, ord)
  IN Cat(Emit(lend, NewBinFUNC(reg, e.Name, e.Args, e.VarArg, lstart, lend, e)),
     Cat(Emit(lend, NewBinLABEL(lstart, e)),
     Cat(body, Emit(body.lid, NewBinLABEL(lend, e)))))

\* LetExprBinTo testing the left side before it lowers the right side.
LetExprBinTo_TestFirst(e, reg, lid, inStmt, ord) ==
  IF ~IsCanLetExpr(e.Lhs) THEN PanicAt(lid)
  ELSE LET r == BinTo(e.Rhs, reg, lid, FALSE, ord)
       IN Cat(r, BinLetTo(e.Lhs, reg, r.lid, ord))

LetExprBinTo(e, reg, lid, inStmt, ord) ==
  LET r == BinTo(e.Rhs, reg, lid, FALSE, ord)
  IN Cat(r, IF IsCanLetExpr(e.Lhs) THEN BinLetTo(e.Lhs, reg, r.lid, ord)
            ELSE PanicAt(r.lid))

\* ConstExprBinTo comparing the text as written, without lowering its case.
ConstExprBinTo_CaseSensitive(e, reg, lid, inStmt, ord) ==
  LET v == CASE e.Value \in {"istina", "true"} -> VMBool(TRUE)
             [] e.Value \in {"lozh", "false"} -> VMBool(FALSE)
             [] e.Value = "null" -> VMNullVar
             [] OTHER -> VMNil
  IN Emit(lid, NewBinLOAD(reg, v, FALSE, e))

ConstExprBinTo(e, reg, lid, inStmt, ord) ==
  LET v == CASE ToLower(e.Value) \in {"istina", "true"} -> VMBool(TRUE)
             [] ToLower(e.Value) \in {"lozh", "false"} -> VMBool(FALSE)
             [] ToLower(e.Value) = "null" -> VMNullVar
             [] OTHER -> VMNil
  IN Emit(lid, NewBinLOAD(reg, v, FALSE, e))

\* Mutant: the direction test jumps to the receive when lhs is a channel.
ChanExprBinTo_JTrue(e, reg, lid, inStmt, ord) ==
  LET r == BinTo(e.Rhs, reg + 1, lid, FALSE, ord)
  IN IF e.Lhs = Nil
     THEN Cat(r, Emit(r.lid, NewBinCHANRECV(reg + 1, reg, e)))
     ELSE LET l == BinTo(e.Lhs, reg + 2, r.lid, FALSE, ord)
              li == l.lid + 1
              li2 == l.lid + 2
              let == IF IsCanLetExpr(e.Lhs) THEN BinLetTo(e.Lhs, reg, li2, ord)
                     ELSE PanicAt(li2)
          IN Cat(r, Cat(l,
             Cat(Emit(l.lid, NewBinMV(reg + 2, reg + 3, e)),
             Cat(Emit(l.lid, NewBinISKIND(reg + 3, "Chan", e)),
             Cat(Emit(li, NewBinJTRUE(reg + 3, li, e)),
             Cat(Emit(li, NewBinCHANSEND(reg + 2, reg + 1, e)),
             Cat(Emit(li, NewBinLOAD(reg, VMBool(TRUE), FALSE, e)),
             Cat(Emit(li2, NewBinJMP(li2, e)),
             Cat(Emit(li2, NewBinLABEL(li, e)),
             Cat(Emit(li2, NewBinCHANRECV(reg + 1, reg, e)),
             Cat(let, Emit(let.lid, NewBinLABEL(li2, e)))))))))))))

\* Mutant: the left side is lowered before the right side.
ChanExprBinTo_LhsFirst(e, reg, lid, inStmt, ord) ==
  IF e.Lhs = Nil
  THEN LET r == BinTo(e.Rhs, reg + 1, lid, FALSE, ord)
       IN Cat(r, Emit(r.lid, NewBinCHANRECV(reg + 1, reg, e)))
  ELSE LET l == BinTo(e.Lhs, reg + 2, lid, FALSE, ord)
           r == BinTo(e.Rhs, reg + 1, l.lid, FALSE, ord)
           li == r.lid + 1
           li2 == r.lid + 2
           let == IF IsCanLetExpr(e.Lhs) THEN BinLetTo(e.Lhs, reg, li2, ord)
                  ELSE PanicAt(li2)
       IN Cat(l, Cat(r,
          Cat(Emit(r.lid, NewBinMV(reg + 2, reg + 3, e)),
          Cat(Emit(r.lid, NewBinISKIND(reg + 3, "Chan", e)),
          Cat(Emit(li, NewBinJFALSE(reg + 3, li, e)),
          Cat(Emit(li, NewBinCHANSEND(reg + 2, reg + 1, e)),
          Cat(Emit(li, NewBinLOAD(reg, VMBool(TRUE), FALSE, e)),
          Cat(Emit(li2, NewBinJMP(li2, e)),
          Cat(Emit(li2, NewBinLABEL(li, e)),
          Cat(Emit(li2, NewBinCHANRECV(reg + 1, reg, e)),
          Cat(let, Emit(let.lid, NewBinLABEL(li2, e)))))))))))))

\* Mutant: the closing LABEL repeats the first label.
ChanExprBinTo_EndLabel(e, reg, lid, inStmt, ord) ==
  LET r == BinTo(e.Rhs, reg + 1, lid, FALSE, ord)
  IN IF e.Lhs = Nil
     THEN Cat(r, Emit(r.lid, NewBinCHANRECV(reg + 1, reg, e)))
     ELSE LET l == BinTo(e.Lhs, reg + 2, r.lid, FALSE, ord)
              li == l.lid + 1
              li2 == l.lid + 2
              let == IF IsCanLetExpr(e.Lhs) THEN BinLetTo(e.Lhs, reg, li2, ord)
                     ELSE PanicAt(li2)
          IN Cat(r, Cat(l,
             Cat(Emit(l.lid, NewBinMV(reg + 2, reg + 3, e)),
             Cat(Emit(l.lid, NewBinISKIND(reg + 3, "Chan", e)),
             Cat(Emit(li, NewBinJFALSE(reg + 3, li, e)),
             Cat(Emit(li, NewBinCHANSEND(reg + 2, reg + 1, e)),
             Cat(Emit(li, NewBinLOAD(reg, VMBool(TRUE), FALSE, e)),
             Cat(Emit(li2, NewBinJMP(li2, e)),
             Cat(Emit(li2, NewBinLABEL(li, e)),
             Cat(Emit(li2, NewBinCHANRECV(reg + 1, reg, e)),
             Cat(let, Emit(let.lid, NewBinLABEL(li, e)))))))))))))

\* Mutant: the send path loads its result into the temporary reg+1.
ChanExprBinTo_LoadTemp(e, reg, lid, inStmt, ord) ==
  LET r == BinTo(e.Rhs, reg + 1, lid, FALSE, ord)
  IN IF e.Lhs = Nil
     THEN Cat(r, Emit(r.lid, NewBinCHANRECV(reg + 1, reg, e)))
     ELSE LET l == BinTo(e.Lhs, reg + 2, r.lid, FALSE, ord)
              li == l.lid + 1
              li2 == l.lid + 2
              let == IF IsCanLetExpr(e.Lhs) THEN BinLetTo(e.Lhs, reg, li2, ord)
                     ELSE PanicAt(li2)
          IN Cat(r, Cat(l,
             Cat(Emit(l.lid, NewBinMV(reg + 2, reg + 3, e)),
             Cat(Emit(l.lid, NewBinISKIND(reg + 3, "Chan", e)),
             Cat(Emit(li, NewBinJFALSE(reg + 3, li, e)),
             Cat(Emit(li, NewBinCHANSEND(reg + 2, reg + 1, e)),
             Cat(Emit(li, NewBinLOAD(reg + 1, VMBool(TRUE), FALSE, e)),
             Cat(Emit(li2, NewBinJMP(li2, e)),
             Cat(Emit(li2, NewBinLABEL(li, e)),
             Cat(Emit(li2, NewBinCHANRECV(reg + 1, reg, e)),
             Cat(let, Emit(let.lid, NewBinLABEL(li2, e)))))))))))))

ChanExprBinTo(e, reg, lid, inStmt, ord) ==
  LET r == BinTo(e.Rhs, reg + 1, lid, FALSE, ord)
  IN IF e.Lhs = Nil
     THEN Cat(r, Emit(r.lid, NewBinCHANRECV(reg + 1, reg, e)))
     ELSE LET l == BinTo(e.Lhs, reg + 2, r.lid, FALSE, ord)
              li == l.lid + 1
              li2 == l.lid + 2
              let == IF IsCanLetExpr(e.Lhs) THEN BinLetTo(e.Lhs, reg, li2, ord)
                     ELSE PanicAt(li2)
          IN Cat(r, Cat(l,
             Cat(Emit(l.lid, NewBinMV(reg + 2, reg + 3, e)),
             Cat(Emit(l.lid, NewBinISKIND(reg + 3, "Chan", e)),
             Cat(Emit(li, NewBinJFALSE(reg + 3, li, e)),
             Cat(Emit(li, NewBinCHANSEND(reg + 2, reg + 1, e)),
             Cat(Emit(li, NewBinLOAD(reg, VMBool(TRUE), FALSE, e)),
             Cat(Emit(li2, NewBinJMP(li2, e)),
             Cat(Emit(li2, NewBinLABEL(li, e)),
             Cat(Emit(li2, NewBinCHANRECV(reg + 1, reg, e)),
             Cat(let, Emit(let.lid, NewBinLABEL(li2, e)))))))))))))

TypeCastBinTo(e, reg, lid, inStmt, ord) ==
  LET c == BinTo(e.CastExpr, reg, lid, FALSE, ord)
      t == BinTo(e.TypeExpr, reg + 1, c.lid, FALSE, ord)
  IN IF e.TypeExpr = Nil
     THEN Cat(c, Cat(Emit(c.lid, NewBinLOAD(reg + 1, VMInt(e.Type), TRUE, e)),
                     Emit(c.lid, NewBinCASTTYPE(reg, reg + 1, e))))
     ELSE Cat(c, Cat(t, Cat(Emit(t.lid, NewBinSETNAME(reg + 1, e)),
                            Emit(t.lid, NewBinCASTTYPE(reg, reg + 1, e)))))

MakeExprBinTo(e, reg, lid, inStmt, ord) ==
  IF e.TypeExpr = Nil
  THEN Cat(Emit(lid, NewBinLOAD(reg, VMInt(e.Type), TRUE, e)),
           Emit(lid, NewBinMAKE(reg, e)))
  ELSE LET t == BinTo(e.TypeExpr, reg, lid, FALSE, ord)
       IN Cat(t, Cat(Emit(t.lid, NewBinSETNAME(reg, e)),
                     Emit(t.lid, NewBinMAKE(reg, e))))

\* MakeChanExprBinTo loading the default size into register 0 whatever the
\* destination is.
MakeChanExprBinTo_SizeIntoZero(e, reg, lid, inStmt, ord) ==
  IF e.SizeExpr = Nil
  THEN Cat(Emit(lid, NewBinLOAD(0, VMInt(0), FALSE, e)),
           Emit(lid, NewBinMAKECHAN(reg, e)))
  ELSE LET s == BinTo(e.SizeExpr, reg, lid, FALSE, ord)
       IN Cat(s, Emit(s.lid, NewBinMAKECHAN(reg, e)))

MakeChanExprBinTo(e, reg, lid, inStmt, ord) ==
  IF e.SizeExpr = Nil
  THEN Cat(Emit(lid, NewBinLOAD(reg, VMInt(0), FALSE, e)),
           Emit(lid, NewBinMAKECHAN(reg, e)))
  ELSE LET s == BinTo(e.SizeExpr, reg, lid, FALSE, ord)
       IN Cat(s, Emit(s.lid, NewBinMAKECHAN(reg, e)))

\* MakeArrayExprBinTo lowering an absent cap as it lowers a present one.
MakeArrayExprBinTo_NoMV(e, reg, lid, inStmt, ord) ==
  LET l == BinTo(e.LenExpr, reg, lid, FALSE, ord)
  IN IF e.CapExpr = Nil
     THEN Cat(l, Emit(l.lid, NewBinMAKEARR(reg, reg + 1, e)))
     ELSE LET c == BinTo(e.CapExpr, reg + 1, l.lid, FALSE, ord)
          IN Cat(l, Cat(c, Emit(c.lid, NewBinMAKEARR(reg, reg + 1, e))))

MakeArrayExprBinTo(e, reg, lid, inStmt, ord) ==
  LET l == BinTo(e.LenExpr, reg, lid, FALSE, ord)
  IN IF e.CapExpr = Nil
     THEN Cat(l, Cat(Emit(l.lid, NewBinMV(reg, reg + 1, e)),
                     Emit(l.lid, NewBinMAKEARR(reg, reg + 1, e))))
     ELSE LET c == BinTo(e.CapExpr, reg + 1, l.lid, FALSE, ord)
          IN Cat(l, Cat(c, Emit(c.lid, NewBinMAKEARR(reg, reg + 1, e))))

\* NativeExprBinTo taking a label id it does not use.
NativeExprBinTo_TakesLabel(e, reg, lid, inStmt, ord) ==
  Emit(lid + 1, NewBinLOAD(reg, e.Value, FALSE, e))

NativeExprBinTo(e, reg, lid, inStmt, ord) ==
  Emit(lid, NewBinLOAD(reg, e.Value, FALSE, e))

\* Method dispatch; calling a method of the nil interface value panics.
BinTo(e, reg, lid, inStmt, ord) ==
  CASE e.k = "nil" -> PanicAt(lid)
    [] e.k = "None" -> NoneExprBinTo(e, reg, lid, inStmt, ord)
    [] e.k = "Number" -> NumberExprBinTo(e, reg, lid, inStmt, ord)
    [] e.k = "String" -> StringExprBinTo(e, reg, lid, inStmt, ord)
    [] e.k = "Array" -> ArrayExprBinTo(e, reg, lid, inStmt, ord)
    [] e.k = "Pair" -> PairExprBinTo(e, reg, lid, inStmt, ord)
    [] e.k = "Map" -> MapExprBinTo(e, reg, lid, inStmt, ord)
    [] e.k = "Ident" -> IdentExprBinTo(e, reg, lid, inStmt, ord)
    [] e.k = "Unary" -> UnaryExprBinTo(e, reg, lid, inStmt, ord)
    [] e.k = "Addr" -> AddrExprBinTo(e, reg, lid, inStmt, ord)
    [] e.k = "Deref" -> DerefExprBinTo(e, reg, lid, inStmt, ord)
    [] e.k = "Paren" -> ParenExprBinTo(e, reg, lid, inStmt, ord)
    [] e.k = "BinOp" -> BinOpExprBinTo(e, reg, lid, inStmt, ord)
    [] e.k = "Ternary" -> TernaryOpExprBinTo(e, reg, lid, inStmt, ord)
    [] e.k = "Call" -> CallExprBinTo(e, reg, lid, inStmt, ord)
    [] e.k = "AnonCall" -> AnonCallExprBinTo(e, reg, lid, inStmt, ord)
    [] e.k = "Member" -> MemberExprBinTo(e, reg, lid, inStmt, ord)
    [] e.k = "Item" -> ItemExprBinTo(e, reg, lid, inStmt, ord)
    [] e.k = "Slice" -> SliceExprBinTo(e, reg, lid, inStmt, ord)
    [] e.k = "Func" -> FuncExprBinTo(e, reg, lid, inStmt, ord)
    [] e.k = "Let" -> LetExprBinTo(e, reg, lid, inStmt, ord)
    [] e.k = "Const" -> ConstExprBinTo(e, reg, lid, inStmt, ord)
    [] e.k = "Chan" -> ChanExprBinTo(e, reg, lid, inStmt, ord)
    [] e.k = "TypeCast" -> TypeCastBinTo(e, reg, lid, inStmt, ord)
    [] e.k = "Make" -> MakeExprBinTo(e, reg, lid, inStmt, ord)
    [] e.k = "MakeChan" -> MakeChanExprBinTo(e, reg, lid, inStmt, ord)
    [] e.k = "MakeArray" -> MakeArrayExprBinTo(e, reg, lid, inStmt, ord)
    [] e.k = "Native" -> NativeExprBinTo(e, reg, lid, inStmt, ord)

\* Dispatch over the variants that implement CanLetExpr.
BinLetTo(e, reg, lid, ord) ==
  CASE e.k = "Ident" -> IdentExprBinLetTo(e, reg, lid, ord)
    [] e.k = "Member" -> MemberExprBinLetTo(e, reg, lid, ord)
    [] e.k = "Item" -> ItemExprBinLetTo(e, reg, lid, ord)
    [] e.k = "Slice" -> SliceExprBinLetTo(e, reg, lid, ord)
    [] OTHER -> PanicAt(lid)

(***************************************************************************)
(* The parser's side: spans and the trees the parser can build.            *)
(***************************************************************************)
AllKeys == <<"a", "b", "c">>
KeyIndex(key) == CHOOSE i \in DOMAIN AllKeys : AllKeys[i] = key

\* The parser gives every node it builds its own span.
RECURSIVE Locate(_, _)
LocateAll(exprs, p, off) ==
  [i \in DOMAIN exprs |-> Locate(exprs[i], p \o <<off + i>>)]
Locate(e, p) ==
  CASE e.k = "nil" -> e
    [] e.k \in {"None", "Number", "String", "Ident", "Const", "Native"} ->
         [e EXCEPT !.pos = p]
    [] e.k = "Array" -> [e EXCEPT !.pos = p, !.Exprs = LocateAll(e.Exprs, p, 0)]
    [] e.k = "Pair" -> [e EXCEPT !.pos = p, !.Value = Locate(e.Value, p \o <<1>>)]
    [] e.k = "Map" ->
         [e EXCEPT !.pos = p,
                   !.MapExpr = [key \in DOMAIN e.MapExpr |->
                                  Locate(e.MapExpr[key], p \o <<KeyIndex(key)>>)]]
    [] e.k \in {"Unary", "Addr", "Deref", "Member"} ->
         [e EXCEPT !.pos = p, !.Expr = Locate(e.Expr, p \o <<1>>)]
    [] e.k = "Paren" -> [e EXCEPT !.pos = p, !.SubExpr = Locate(e.SubExpr, p \o <<1>>)]
    [] e.k = "BinOp" ->
         [e EXCEPT !.pos = p, !.Lhss = LocateAll(e.Lhss, p, 0),
                   !.Rhss = LocateAll(e.Rhss, p, Len(e.Lhss))]
    [] e.k = "Ternary" ->
         [e EXCEPT !.pos = p, !.Expr = Locate(e.Expr, p \o <<1>>),
                   !.Lhs = Locate(e.Lhs, p \o <<2>>),
                   !.Rhs = Locate(e.Rhs, p \o <<3>>)]
    [] e.k = "Call" -> [e EXCEPT !.pos = p, !.SubExprs = LocateAll(e.SubExprs, p, 0)]
    [] e.k = "AnonCall" ->
         [e EXCEPT !.pos = p, !.Expr = Locate(e.Expr, p \o <<1>>),
                   !.SubExprs = LocateAll(e.SubExprs, p, 1)]
    [] e.k = "Item" ->
         [e EXCEPT !.pos = p, !.Value = Locate(e.Value, p \o <<1>>),
                   !.Index = Locate(e.Index, p \o <<2>>)]
    [] e.k = "Slice" ->
         [e EXCEPT !.pos = p, !.Value = Locate(e.Value, p \o <<1>>),
                   !.Begin = Locate(e.Begin, p \o <<2>>),
                   !.End = Locate(e.End, p \o <<3>>)]
    [] e.k = "Func" -> [e EXCEPT !.pos = p, !.Stmts = LocateAll(e.Stmts, p, 0)]
    [] e.k \in {"Let", "Chan"} ->
         [e EXCEPT !.pos = p, !.Lhs = Locate(e.Lhs, p \o <<1>>),
                   !.Rhs = Locate(e.Rhs, p \o <<2>>)]
    [] e.k = "TypeCast" ->
         [e EXCEPT !.pos = p, !.TypeExpr = Locate(e.TypeExpr, p \o <<1>>),
                   !.CastExpr = Locate(e.CastExpr, p \o <<2>>)]
    [] e.k = "Make" -> [e EXCEPT !.pos = p, !.TypeExpr = Locate(e.TypeExpr, p \o <<1>>)]
    [] e.k = "MakeChan" ->
         [e EXCEPT !.pos = p, !.SizeExpr = Locate(e.SizeExpr, p \o <<1>>)]
    [] e.k = "MakeArray" ->
         [e EXCEPT !.pos = p, !.LenExpr = Locate(e.LenExpr, p \o <<1>>),
                   !.CapExpr = Locate(e.CapExpr, p \o <<2>>)]

Range(f) == {f[i] : i \in DOMAIN f}

\* The children of a node.
Children(e) ==
  CASE e.k \in {"nil", "None", "Number", "String", "Ident", "Const", "Native"} -> {}
    [] e.k = "Array" -> Range(e.Exprs)
    [] e.k = "Pair" -> {e.Value}
    [] e.k = "Map" -> Range(e.MapExpr)
    [] e.k \in {"Unary", "Addr", "Deref", "Member"} -> {e.Expr}
    [] e.k = "Paren" -> {e.SubExpr}
    [] e.k = "BinOp" -> Range(e.Lhss) \cup Range(e.Rhss)
    [] e.k = "Ternary" -> {e.Expr, e.Lhs, e.Rhs}
    [] e.k = "Call" -> Range(e.SubExprs)
    [] e.k = "AnonCall" -> {e.Expr} \cup Range(e.SubExprs)
    [] e.k = "Item" -> {e.Value, e.Index}
    [] e.k = "Slice" -> {e.Value, e.Begin, e.End}
    [] e.k = "Func" -> Range(e.Stmts)
    [] e.k \in {"Let", "Chan"} -> {e.Lhs, e.Rhs}
    [] e.k = "TypeCast" -> {e.TypeExpr, e.CastExpr}
    [] e.k = "Make" -> {e.TypeExpr}
    [] e.k = "MakeChan" -> {e.SizeExpr}
    [] e.k = "MakeArray" -> {e.LenExpr, e.CapExpr}

\* All nodes of a tree.
RECURSIVE Nodes(_)
Nodes(e) == {e} \cup UNION {Nodes(c) : c \in Children(e)}

\* The orders in which the Go runtime may range over the map literals of
\* a tree: any permutation of the keys, independently for every literal.
Perms(K) == {q \in [1 .. Cardinality(K) -> K] :
               \A i, j \in 1 .. Cardinality(K) : q[i] = q[j] => i = j}
MapOrders(e) ==
  LET maps == {n \in Nodes(e) : n.k = "Map"}
      P == {n.pos : n \in maps}
  IN {f \in [P -> UNION {Perms(DOMAIN n.MapExpr) : n \in maps}] :
        \A n \in maps : f[n.pos] \in Perms(DOMAIN n.MapExpr)}

SeqsUpTo(S, n) == UNION {[1 .. m -> S] : m \in 0 .. n}

N0 == NumberExpr("0")
N2 == NumberExpr("2")
N7 == NumberExpr("7")
I1 == IdentExpr(1)
I2 == IdentExpr(2)
CTrue == ConstExpr("true")
CFalse == ConstExpr("False")
SA == StringExpr("a")

Atoms == {N2, CTrue, I1}
Leaves ==
  Atoms \cup
  {NoneExpr, N0, N7, NumberExpr("99999999999999999999"), NumberExpr("2.5"),
   NumberExpr("1e"), SA, StringExpr("zz"), CFalse, ConstExpr("nil"),
   ConstExpr("Istina"), ConstExpr("lozh"), ConstExpr("NULL"), I2}

MapLits(S) ==
  UNION {[K -> S] : K \in SUBSET {AllKeys[i] : i \in 1 .. MaxKeys}}

\* Nodes whose children are leaves.  The parser builds a PairExpr only to
\* move its key and value into a MapExpr, so a Pair is never a child.
Depth1 ==
  {UnaryExpr(o, l) : o \in {"-", "!"}, l \in Leaves}
  \cup {AddrExpr(l) : l \in Atoms} \cup {DerefExpr(l) : l \in Atoms}
  \cup {ParenExpr(l) : l \in Leaves}
  \cup {BinOpExpr(<<a>>, o, <<b>>) :
          o \in {"+", "/", "==", "&&", "||"},
          a \in Atoms \cup {SA, CFalse}, b \in Atoms \cup {SA, N0}}
  \cup {BinOpExpr(<<I1, I2>>, "==", <<N2, N7>>),
        BinOpExpr(<<I1, I2>>, "==", <<N2>>),
        BinOpExpr(<<N2, I1>>, "==", <<N2, N7>>),
        BinOpExpr(<<I1, I2>>, "+", <<N2, N7>>)}
  \cup {TernaryOpExpr(c, l, r) : c \in Atoms \cup {CFalse}, l \in Atoms, r \in Atoms}
  \cup {CallExpr(3, a, FALSE, FALSE) : a \in SeqsUpTo(Atoms, MaxArgs)}
  \cup {CallExpr(3, <<I1>>, TRUE, TRUE), CallExpr(3, <<I1, I2>>, TRUE, FALSE)}
  \cup {AnonCallExpr(I1, a, FALSE, FALSE) : a \in SeqsUpTo(Atoms, MaxArgs)}
  \cup {AnonCallExpr(I1, <<I2>>, FALSE, TRUE)}
  \cup {MemberExpr(l, 4) : l \in Atoms}
  \cup {ItemExpr(v, i) : v \in Atoms, i \in Atoms \cup {SA, N7}}
  \cup {SliceExpr(v, b, e) : v \in Atoms, b \in {N0, I1, NoneExpr},
                              e \in {N2, I1, NoneExpr}}
  \cup {FuncExpr(5, st, <<1, 2>>, va) :
          st \in {<<>>, <<I1>>, <<BinOpExpr(<<I1>>, "==", <<N2>>)>>,
                  <<CallExpr(3, <<>>, FALSE, FALSE), I2>>},
          va \in BOOLEAN}
  \cup {LetExpr(l, r) : l \in Atoms, r \in Atoms}
  \cup {ChanExpr(l, r) : l \in Atoms \cup {Nil}, r \in Atoms}
  \cup {TypeCast(6, t, c) : t \in {Nil, SA, I1}, c \in Atoms}
  \cup {MakeExpr(6, t) : t \in {Nil, SA}}
  \cup {MakeChanExpr(z) : z \in Atoms \cup {Nil}}
  \cup {MakeArrayExpr(l, c) : l \in Atoms, c \in Atoms \cup {Nil}}
  \cup {ArrayExpr(a) : a \in SeqsUpTo(Atoms, MaxArgs)}
  \cup {MapExpr(m) : m \in MapLits(Atoms)}
  \cup {PairExpr("a", l) : l \in Atoms}

\* The nodes that are put below a second level.
Inner ==
  {N2, I1, CTrue, CFalse, SA, NoneExpr,
   ArrayExpr(<<N2, N7>>), MapExpr([key \in {"a"} |-> N2]),
   MapExpr([key \in {"a", "b"} |-> IF key = "a" THEN I1 ELSE N2]),
   BinOpExpr(<<I1>>, "&&", <<I2>>), BinOpExpr(<<I1>>, "||", <<N2>>),
   BinOpExpr(<<I1>>, "==", <<N2>>), BinOpExpr(<<N2>>, "+", <<N2>>),
   BinOpExpr(<<I1, I2>>, "==", <<N2, N7>>),
   TernaryOpExpr(I1, N2, I2), TernaryOpExpr(CTrue, N2, I2),
   ItemExpr(I1, I2), SliceExpr(I1, N0, N2), MemberExpr(I1, 4),
   ChanExpr(I1, I2), ChanExpr(Nil, I1),
   FuncExpr(5, <<>>, <<1>>, FALSE),
   FuncExpr(5, <<BinOpExpr(<<I1>>, "==", <<N2>>)>>, <<1>>, FALSE),
   CallExpr(3, <<I1, N2>>, FALSE, FALSE), CallExpr(3, <<>>, FALSE, FALSE),
   AnonCallExpr(I1, <<N2>>, FALSE, FALSE),
   ParenExpr(I1), ParenExpr(N2), UnaryExpr("-", I1), UnaryExpr("!", CTrue),
   LetExpr(I1, N2), AddrExpr(I1),
   MakeArrayExpr(N2, Nil), MakeChanExpr(Nil), MakeExpr(6, Nil),
   TypeCast(6, Nil, I1)}

Wrap(d) ==
  {ParenExpr(d), UnaryExpr("-", d), AddrExpr(d), DerefExpr(d),
   BinOpExpr(<<d>>, "&&", <<I2>>), BinOpExpr(<<I2>>, "&&", <<d>>),
   BinOpExpr(<<d>>, "||", <<I2>>), BinOpExpr(<<I2>>, "||", <<d>>),
   BinOpExpr(<<d>>, "+", <<N2>>), BinOpExpr(<<I2>>, "<", <<d>>),
   BinOpExpr(<<d>>, "==", <<N2>>),
   TernaryOpExpr(d, I2, N7), TernaryOpExpr(I2, d, N7), TernaryOpExpr(CTrue, N7, d),
   TernaryOpExpr(CFalse, I2, d),
   CallExpr(3, <<d, I2>>, FALSE, FALSE), CallExpr(3, <<d>>, FALSE, FALSE),
   AnonCallExpr(d, <<I2>>, FALSE, FALSE), AnonCallExpr(I2, <<N7, d>>, FALSE, FALSE),
   MemberExpr(d, 4),
   ItemExpr(d, NumberExpr("1")), ItemExpr(d, N7), ItemExpr(d, SA),
   ItemExpr(d, StringExpr("zz")), ItemExpr(I2, d),
   SliceExpr(d, N0, NumberExpr("1")), SliceExpr(d, N2, N7), SliceExpr(d, N2, N0),
   LetExpr(d, N7), LetExpr(I2, d), ChanExpr(d, I2), ChanExpr(I2, d), ChanExpr(Nil, d),
   ArrayExpr(<<d, N7>>), MapExpr([key \in {"a", "b"} |-> IF key = "a" THEN d ELSE I2]),
   FuncExpr(5, <<d>>, <<1>>, FALSE), MakeArrayExpr(d, Nil), MakeArrayExpr(I2, d),
   MakeChanExpr(d), TypeCast(6, Nil, d), TypeCast(6, d, I2), MakeExpr(6, d)}

Depth2 == UNION {Wrap(d) : d \in Inner}

\* A third level over a few assignable and folding shapes.
Deep ==
  {LetExpr(ItemExpr(ItemExpr(I1, I2), N2), N7),
   LetExpr(ItemExpr(SliceExpr(I1, N0, N2), N2), N7),
   LetExpr(SliceExpr(MemberExpr(I1, 4), N0, N2), N7),
   LetExpr(ItemExpr(CallExpr(3, <<>>, FALSE, FALSE), N2), N7),
   LetExpr(SliceExpr(CallExpr(3, <<>>, FALSE, FALSE), N0, N2), N7),
   LetExpr(ItemExpr(SliceExpr(ParenExpr(I1), N0, N2), I2), TernaryOpExpr(I1, N2, N7)),
   ChanExpr(ItemExpr(CallExpr(3, <<>>, FALSE, FALSE), N2), I2),
   ChanExpr(ItemExpr(ItemExpr(I1, I2), N2), I2),
   UnaryExpr("-", ItemExpr(MapExpr([key \in {"a"} |-> N2]), StringExpr("zz"))),
   UnaryExpr("-", ItemExpr(MapExpr([key \in {"a"} |-> N2]), SA)),
   ParenExpr(ParenExpr(ParenExpr(N2))),
   ParenExpr(ParenExpr(BinOpExpr(<<I1>>, "==", <<N2>>))),
   TernaryOpExpr(TernaryOpExpr(I1, CTrue, CFalse), BinOpExpr(<<I1>>, "&&", <<I2>>),
                 TernaryOpExpr(I2, N2, N7)),
   BinOpExpr(<<BinOpExpr(<<I1>>, "||", <<I2>>)>>, "&&",
             <<BinOpExpr(<<I2>>, "||", <<TernaryOpExpr(I1, N2, N7)>>)>>),
   FuncExpr(5, <<FuncExpr(5, <<TernaryOpExpr(I1, N2, N7)>>, <<>>, FALSE),
                 BinOpExpr(<<ItemExpr(I1, I2)>>, "==", <<N2>>)>>, <<1>>, FALSE),
   MapExpr([key \in {"a", "b"} |->
              IF key = "a" THEN MapExpr([k2 \in {"a", "b"} |-> I1])
              ELSE TernaryOpExpr(I1, N2, N7)]),
   ItemExpr(ArrayExpr(<<ArrayExpr(<<N2, N7>>), N2>>), UnaryExpr("-", NumberExpr("1"))),
   BinOpExpr(<<ItemExpr(ArrayExpr(<<N2, N7>>), NumberExpr("1"))>>, "+",
             <<BinOpExpr(<<N2>>, "*", <<N7>>)>>)}

Exprs == Leaves \cup Depth1 \cup Depth2 \cup Deep
Parsed == {Locate(e, <<>>) : e \in Exprs}

(***************************************************************************)
(* The stub register machine.  A register is described by the instruction  *)
(* that wrote it last and by what is known of its truth value.             *)
(***************************************************************************)
\* The registers an instruction stores a result into.
Writes(ins) ==
  CASE ins.op \in {"LOAD", "CASTNUM", "MAKESLICE", "MAKEMAP", "GET", "UNARY",
                   "ADDRID", "ADDRMBR", "UNREFID", "UNREFMBR", "GETMEMBER",
                   "GETIDX", "GETSUBSLICE", "FUNC", "ISKIND", "SETNAME",
                   "CASTTYPE", "MAKE", "MAKECHAN", "MAKEARR"} -> {ins.Reg}
    [] ins.op = "OPER" -> {ins.RegL}
    [] ins.op = "CALL" -> {ins.RegRets}
    [] ins.op \in {"SETITEM", "SETSLICE"} -> {ins.RegNeedLet}
    [] ins.op = "CHANRECV" -> {ins.RegVal}
    [] ins.op = "MV" -> {ins.RegTo}
    [] OTHER -> {}

\* The labels an instruction refers to as jump targets.
Targets(ins) ==
  CASE ins.op \in {"JMP", "JTRUE", "JFALSE"} -> {ins.JumpTo}
    [] ins.op = "FUNC" -> {ins.LabelStart, ins.LabelEnd}
    [] OTHER -> {}

LabelsAt(code, lab) == {i \in DOMAIN code : code[i].op = "LABEL" /\ code[i].Label = lab}

\* What the machine knows of the truth of the value an instruction stores.
Known(ins, rs) ==
  CASE ins.op = "LOAD" /\ ins.Val.t = "Bool" -> IF ins.Val.b THEN "true" ELSE "false"
    [] ins.op = "MV" /\ ins.RegFrom \in DOMAIN rs -> rs[ins.RegFrom].val
    [] OTHER -> "any"

\* The truth values a conditional jump may find in register r.
Truths(rs, r) ==
  IF r \in DOMAIN rs /\ rs[r].val = "true" THEN {TRUE}
  ELSE IF r \in DOMAIN rs /\ rs[r].val = "false" THEN {FALSE}
  ELSE BOOLEAN

(***************************************************************************)
(* The pipeline: a parsed tree is simplified (possibly twice), lowered     *)
(* with some destination register, label counter and statement flag,       *)
(* lowered once more with the same inputs, and the emitted code is run.    *)
(***************************************************************************)
VARIABLES orig, ast, stage, phase, reg0, lid0, inStmt0, ord0,
          bins, lid, bins2, lid2, ok2, pc, regs, executed, taken,
          stmt_cases, onStack, consumed, errors

vars == <<orig, ast, stage, phase, reg0, lid0, inStmt0, ord0,
          bins, lid, bins2, lid2, ok2, pc, regs, executed, taken,
          stmt_cases, onStack, consumed, errors>>

\* The parser reducing the case list of a switch / select: the value of
\* stmt_cases, whether one is on the value stack, the clauses reduced so
\* far in the order of the source, and the calls of yylex.Error.
parsing == <<stmt_cases, onStack, consumed, errors>>
pipeline == <<orig, ast, stage, phase, reg0, lid0, inStmt0, ord0,
              bins, lid, bins2, lid2, ok2, pc, regs, executed, taken>>
lowering == <<reg0, lid0, inStmt0, ord0, bins, lid>>
relowering == <<bins2, lid2, ok2>>
machine == <<pc, regs, executed, taken>>

Init ==
  /\ orig \in Parsed
  /\ ast = orig
  /\ stage = "parsed"
  /\ phase = "ast"
  /\ reg0 = 0 /\ lid0 = 0 /\ inStmt0 = FALSE /\ ord0 = <<>>
  /\ bins = <<>> /\ lid = 0
  /\ bins2 = <<>> /\ lid2 = 0 /\ ok2 = FALSE
  /\ pc = 1 /\ regs = <<>> /\ executed = {} /\ taken = {}
  /\ stmt_cases = <<>> /\ onStack = FALSE /\ consumed = <<>> /\ errors = <<>>

\* ast = ast.Simplify(); a panic leaves the pipeline dead.
DoSimplify ==
  /\ phase = "ast"
  /\ stage \in {"parsed", "simplified"}
  /\ LET r == Simplify(ast)
     IN IF r.ok
        THEN /\ ast' = r.e
             /\ stage' = IF stage = "parsed" THEN "simplified" ELSE "resimplified"
        ELSE /\ ast' = ast
             /\ stage' = "panicked"
  /\ UNCHANGED <<orig, phase, lowering, relowering, machine, parsing>>

\* ast.BinTo(bins, reg, &lid, inStmt) into an empty buffer.
Lower ==
  /\ phase = "ast"
  /\ stage \in {"parsed", "simplified"}
  /\ \E r \in 0 .. MaxReg, l \in 0 .. MaxLid, st \in BOOLEAN, o \in MapOrders(ast) :
       LET b == BinTo(ast, r, l, st, o)
       IN /\ reg0' = r /\ lid0' = l /\ inStmt0' = st /\ ord0' = o
          /\ bins' = b.bins
          /\ lid' = b.lid
          /\ phase' = IF b.ok THEN "lowered" ELSE "failed"
  /\ UNCHANGED <<orig, ast, stage, relowering, machine, parsing>>

\* The same tree lowered a second time with the same inputs.
Relower ==
  /\ phase \in {"lowered", "failed"}
  /\ executed = {}
  /\ \E o \in MapOrders(ast) :
       LET b == BinTo(ast, reg0, lid0, inStmt0, o)
       IN /\ bins2' = b.bins
          /\ lid2' = b.lid
          /\ ok2' = b.ok
  /\ phase' = "relowered"
  /\ UNCHANGED <<orig, ast, stage, lowering, machine, parsing>>

Jump(lab) ==
  IF LabelsAt(bins, lab) = {} THEN Len(bins) + 1
  ELSE (CHOOSE i \in LabelsAt(bins, lab) : TRUE) + 1

\* The machine executes the instruction at pc.
Step ==
  /\ phase = "lowered"
  /\ pc \in DOMAIN bins
  /\ LET ins == bins[pc]
     IN /\ executed' = executed \cup {pc}
        /\ regs' = [r \in DOMAIN regs \cup Writes(ins) |->
                      IF r \in Writes(ins)
                      THEN [by |-> pc, val |-> Known(ins, regs)]
                      ELSE regs[r]]
        /\ CASE ins.op = "JMP" ->
                  /\ pc' = Jump(ins.JumpTo)
                  /\ taken' = taken
             [] ins.op = "FUNC" ->
                  /\ pc' = Jump(ins.LabelEnd)
                  /\ taken' = taken
             [] ins.op \in {"JTRUE", "JFALSE"} ->
                  \E t \in Truths(regs, ins.Reg) :
                    /\ taken' = taken \cup {<<pc, t>>}
                    /\ pc' = IF t = (ins.op = "JTRUE") THEN Jump(ins.JumpTo)
                             ELSE pc + 1
             [] OTHER ->
                  /\ pc' = pc + 1
                  /\ taken' = taken
  /\ UNCHANGED <<orig, ast, stage, phase, lowering, relowering, parsing>>

Next == DoSimplify \/ Lower \/ Relower \/ Step

Spec == Init /\ [][Next]_vars

Halted == phase = "lowered" /\ pc = Len(bins) + 1

(***************************************************************************)
(* The parser's reductions of a switch / select case list.  A clause is    *)
(* the node the parser allocates for it; n tells the allocations apart     *)
(* (the n-th clause of the source).  The statements of a clause play no    *)
(* part in the list and are left out.                                      *)
(***************************************************************************)
CaseStmt(e, n) == [k |-> "CaseStmt", Expr |-> e, n |-> n]
DefaultStmt(n) == [k |-> "DefaultStmt", n |-> n]
\* _, ok := stmt.(*ast.DefaultStmt)
IsDefaultStmt(stmt) == stmt.k = "DefaultStmt"
\* The expressions the clauses of the model are built over.
CaseExprs == {N2, I1}

\* stmt_cases : (empty)
StmtCasesEmpty ==
  /\ ~onStack
  /\ stmt_cases' = <<>>
  /\ onStack' = TRUE
  /\ UNCHANGED <<consumed, errors, pipeline>>

\* stmt_cases : opt_newlines stmt_case
StmtCasesCase ==
  /\ ~onStack
  /\ \E e \in CaseExprs :
       LET c == CaseStmt(e, Len(consumed) + 1)
       IN /\ stmt_cases' = <<c>>
          /\ consumed' = Append(consumed, c)
  /\ onStack' = TRUE
  /\ UNCHANGED <<errors, pipeline>>

\* stmt_cases : opt_newlines stmt_default
StmtCasesDefault ==
  /\ ~onStack
  /\ LET d == DefaultStmt(Len(consumed) + 1)
     IN /\ stmt_cases' = <<d>>
        /\ consumed' = Append(consumed, d)
  /\ onStack' = TRUE
  /\ UNCHANGED <<errors, pipeline>>

\* stmt_cases : stmt_cases stmt_case
StmtCasesAppendCase ==
  /\ onStack /\ Len(stmt_cases) < MaxCases
  /\ \E e \in CaseExprs :
       LET c == CaseStmt(e, Len(consumed) + 1)
       IN /\ stmt_cases' = Append(stmt_cases, c)
          /\ consumed' = Append(consumed, c)
  /\ UNCHANGED <<onStack, errors, pipeline>>

\* yylex.Error once for every DefaultStmt of the list, in a loop that
\* does not stop at the first.
RECURSIVE ReportDefaults(_, _, _)
ReportDefaults(cases, i, errs) ==
  IF i > Len(cases) THEN errs
  ELSE ReportDefaults(cases, i + 1,
                      IF IsDefaultStmt(cases[i])
                      THEN Append(errs, "multiple default statement")
                      ELSE errs)

\* StmtCasesAppendDefault appending the clause without looking at the list.
StmtCasesAppendDefault_NoReport ==
  /\ onStack /\ Len(stmt_cases) < MaxCases
  /\ LET d == DefaultStmt(Len(consumed) + 1)
     IN /\ stmt_cases' = Append(stmt_cases, d)
        /\ consumed' = Append(consumed, d)
  /\ UNCHANGED <<onStack, errors, pipeline>>

\* stmt_cases : stmt_cases stmt_default
StmtCasesAppendDefault ==
  /\ onStack /\ Len(stmt_cases) < MaxCases
  /\ LET d == DefaultStmt(Len(consumed) + 1)
     IN /\ errors' = ReportDefaults(stmt_cases, 1, errors)
        /\ stmt_cases' = Append(stmt_cases, d)
        /\ consumed' = Append(consumed, d)
  /\ UNCHANGED <<onStack, pipeline>>

CasesInit == Init /\ orig = Locate(N2, <<>>)

CasesNext ==
  \/ StmtCasesEmpty
  \/ StmtCasesCase
  \/ StmtCasesDefault
  \/ StmtCasesAppendCase
  \/ StmtCasesAppendDefault

CasesSpec == CasesInit /\ [][CasesNext]_vars

(***************************************************************************)
(* Properties.                                                             *)
(***************************************************************************)
IsConstTrue(e) == e.k = "Const" /\ ToLower(e.Value) \in {"istina", "true"}
IsConstFalse(e) == e.k = "Const" /\ ToLower(e.Value) \in {"lozh", "false"}
IsStmtAssign(e, st) == st /\ e.k = "BinOp" /\ OperMap[e.Operator] = "EQL"
Lowered(e, reg, l, st, o) ==
  LET b == BinTo(e, reg, l, st, o) IN <<b.ok, b.bins, b.lid>>
LabelPcs(code) == {i \in DOMAIN code : code[i].op = "LABEL"}
Ops(code) == {code[i].op : i \in DOMAIN code}

\* C1: Simplify never raises: on a tree all of whose children are present,
\* a fold that cannot be performed (a unary operator over a Native value
\* without unary operators, an index or bounds outside a Native slice, ...)
\* leaves the node in place and Simplify returns normally.
C1_SimplifyNeverRaises ==
  (\A n \in Nodes(orig) : n.k # "nil") => stage # "panicked"

\* C2: Simplify is idempotent: a second pass over a simplified tree returns
\* normally and yields the tree the first pass produced.
C2_SimplifyIdempotent ==
  /\ stage = "simplified" => Simplify(ast).ok
  /\ stage = "resimplified" => ast = Simplify(orig).e

C2_Witness ==
  /\ stage = "resimplified"
  /\ orig.k = "Paren" /\ orig.SubExpr.k = "BinOp"
  /\ ast.k = "Paren" /\ ast # orig

\* C3: a ternary whose condition is the constant true simplifies to its
\* (simplified) lhs branch, so both lower to the same instructions; a
\* constant false condition gives the rhs branch.
C3_TernaryConstFold ==
  (stage = "simplified" /\ orig.k = "Ternary") =>
    /\ (IsConstTrue(orig.Expr) /\ Simplify(orig.Lhs).ok) =>
         \A r \in 0 .. MaxReg, l \in 0 .. MaxLid, o \in MapOrders(ast) :
           Lowered(ast, r, l, FALSE, o)
             = Lowered(Simplify(orig.Lhs).e, r, l, FALSE, o)
    /\ (IsConstFalse(orig.Expr) /\ Simplify(orig.Rhs).ok) =>
         \A r \in 0 .. MaxReg, l \in 0 .. MaxLid, o \in MapOrders(ast) :
           Lowered(ast, r, l, FALSE, o)
             = Lowered(Simplify(orig.Rhs).e, r, l, FALSE, o)

C5_LabelsDistinct ==
  /\ \A i, j \in LabelPcs(bins) : bins[i].Label = bins[j].Label => i = j
  /\ \A i, j \in LabelPcs(bins2) : bins2[i].Label = bins2[j].Label => i = j

C5_Witness ==
  /\ phase = "lowered"
  /\ {"FUNC", "JMP", "SETITEM"} \subseteq Ops(bins)
  /\ Cardinality(LabelPcs(bins)) >= 7

\* The code of a 1x1 `&&` / `||` at the root: the left operand, the
\* conditional jump, the right operand, the label.
IsShortCircuit(e) ==
  /\ e.k = "BinOp" /\ Len(e.Lhss) = 1 /\ Len(e.Rhss) = 1
  /\ e.Operator \in {"&&", "||"}
LhsLen == Len(BinTo(ast.Lhss[1], reg0, lid0, FALSE, ord0).bins)
RhsPcs == LhsLen + 2 .. Len(bins) - 1

\* C6: when the left operand of `&&` is falsy (of `||` truthy) no
\* instruction of the right operand is executed; otherwise the right
\* operand runs and the last write to the destination register is its own.
C6_ShortCircuit ==
  (phase = "lowered" /\ IsShortCircuit(ast)) =>
    /\ <<LhsLen + 1, ast.Operator = "||">> \in taken => executed \cap RhsPcs = {}
    /\ (Halted /\ <<LhsLen + 1, ast.Operator = "&&">> \in taken) =>
         /\ RhsPcs # {} /\ LhsLen + 2 \in executed
         /\ reg0 \in DOMAIN regs /\ regs[reg0].by \in RhsPcs

C6_Witness ==
  /\ Halted /\ IsShortCircuit(ast) /\ ast.Operator = "&&"
  /\ ast.Rhss[1].k = "Call"
  /\ <<LhsLen + 1, FALSE>> \in taken

\* The code of a ternary at the root: condition, JFALSE, lhs, JMP, LABEL,
\* rhs, LABEL.
CondLen == Len(BinTo(ast.Expr, reg0, lid0, FALSE, ord0).bins)
ThenLen ==
  Len(BinTo(ast.Lhs, reg0, BinTo(ast.Expr, reg0, lid0, FALSE, ord0).lid + 1,
            FALSE, ord0).bins)
ThenPcs == CondLen + 2 .. CondLen + 1 + ThenLen
ElsePcs == CondLen + ThenLen + 4 .. Len(bins) - 1

\* C7: a run of the code of a ternary executes the instructions of exactly
\* one branch: the lhs when the condition is truthy, the rhs when falsy.
C7_TernaryOneBranch ==
  (phase = "lowered" /\ ast.k = "Ternary") =>
    /\ <<CondLen + 1, TRUE>> \in taken => executed \cap ElsePcs = {}
    /\ <<CondLen + 1, FALSE>> \in taken => executed \cap ThenPcs = {}
    /\ Halted =>
         /\ ThenPcs # {} /\ ElsePcs # {}
         /\ \/ <<CondLen + 1, TRUE>> \in taken /\ CondLen + 2 \in executed
            \/ <<CondLen + 1, FALSE>> \in taken
                 /\ CondLen + ThenLen + 4 \in executed

C7_Witness ==
  /\ Halted /\ ast.k = "Ternary" /\ ast.Lhs.k = "BinOp" /\ ast.Rhs.k = "Ternary"
  /\ <<CondLen + 1, FALSE>> \in taken

\* C8 as stated: lowering Paren(e) appends what lowering e appends, for
\* the same register, label counter and inStmt, whatever inStmt is.
C8_ParenSameAsInner ==
  (phase \in {"lowered", "failed"} /\ ast.k = "Paren") =>
    <<phase = "lowered", bins, lid>>
      = Lowered(ast.SubExpr, reg0, lid0, inStmt0, ord0)

\* C8 amended: lowering Paren(e) appends what lowering e with inStmt =
\* false appends; this is what lowering e with the same inStmt appends
\* unless inStmt is true and e is a BinOp `==`.
C8_ParenLowersInnerAsExpr ==
  (phase \in {"lowered", "failed"} /\ ast.k = "Paren") =>
    /\ <<phase = "lowered", bins, lid>>
         = Lowered(ast.SubExpr, reg0, lid0, FALSE, ord0)
    /\ ~IsStmtAssign(ast.SubExpr, inStmt0) =>
         <<phase = "lowered", bins, lid>>
           = Lowered(ast.SubExpr, reg0, lid0, inStmt0, ord0)

C8_Witness ==
  /\ phase = "lowered" /\ ast.k = "Paren" /\ inStmt0
  /\ ast.SubExpr.k = "BinOp" /\ ast.SubExpr.Operator = "=="
  /\ "OPER" \in Ops(bins)

\* C9: lowering the same tree twice with the same register and label
\* counter appends the same instructions.
C9_LoweringDeterministic ==
  phase = "relowered" => (bins2 = bins /\ lid2 = lid)

Spans(e) == {n.pos : n \in {m \in Nodes(e) : m.k # "nil"}}

\* C11: Simplify is non-destructive on spans: every node of the simplified
\* tree carries a span of the original tree (a surviving node its own, a
\* Native created by a fold the span of the node it replaces), never an
\* empty span.
C11_SimplifyKeepsSpans ==
  stage = "simplified" => Spans(ast) \subseteq Spans(orig)

\* C12: every instruction appended by lowering a parsed tree carries the
\* span of a node of that tree, never an empty span.
C12_InstructionsCarrySpans ==
  (phase = "lowered" /\ stage = "parsed") =>
    \A i \in DOMAIN bins : bins[i].pos \in Spans(ast)

\* The assignments into a container: SETITEM / SETSLICE, each followed by
\* the jump on its flag register, the rebind of the container, the label.
SetPcs == {i \in DOMAIN bins : bins[i].op \in {"SETITEM", "SETSLICE"}}
RebindEnd(i) == CHOOSE j \in i + 2 .. Len(bins) :
                  bins[j].op = "LABEL" /\ bins[j].Label \in Targets(bins[i + 1])
RebindPcs(i) == i + 2 .. RebindEnd(i) - 1

\* C13 as stated: the instructions that assign the container back run
\* exactly when the flag stored by SETITEM / SETSLICE is false.
C13_RebindWhenFlagFalse ==
  phase = "lowered" =>
    \A i \in SetPcs :
      /\ <<i + 1, TRUE>> \in taken => executed \cap RebindPcs(i) = {}
      /\ (Halted /\ <<i + 1, FALSE>> \in taken) => i + 2 \in executed

\* C13 amended: the flag register is tested right after SETITEM /
\* SETSLICE, and the instructions that assign the container back run
\* exactly when the flag is true and are skipped when it is false.
C13_RebindWhenFlagTrue ==
  phase = "lowered" =>
    \A i \in SetPcs :
      /\ bins[i + 1].Reg = bins[i].RegNeedLet
      /\ RebindPcs(i) # {}
      /\ <<i + 1, FALSE>> \in taken => executed \cap RebindPcs(i) = {}
      /\ (Halted /\ <<i + 1, TRUE>> \in taken) => i + 2 \in executed
      /\ (Halted /\ i \in executed) => \E t \in BOOLEAN : <<i + 1, t>> \in taken

C13_Witness ==
  /\ Halted
  /\ \E i \in SetPcs : bins[i].op = "SETITEM" /\ <<i + 1, TRUE>> \in taken
  /\ \E i \in SetPcs : bins[i].op = "SETSLICE" /\ <<i + 1, FALSE>> \in taken

\* An assignment whose target is arr[i] with arr and i identifiers.
IsIdentItemLet(e) ==
  /\ e.k = "Let" /\ e.Lhs.k = "Item"
  /\ e.Lhs.Value.k = "Ident" /\ e.Lhs.Index.k = "Ident"

\* C14: with the assigned value in register r, the target arr[i] is lowered
\* to GET r+1,arr; GET r+2,i; SETITEM r+1,r+2,r,r+3; JFALSE r+3,Lend;
\* SET r+1,arr; LABEL Lend, where Lend is the one label it allocates.
C14_ItemAssignSequence ==
  (phase = "lowered" /\ IsIdentItemLet(ast)) =>
    LET rhs == BinTo(ast.Rhs, reg0, lid0, FALSE, ord0)
        r == reg0
        Lend == rhs.lid + 1
        t == ast.Lhs
    IN /\ bins = rhs.bins \o
                   <<NewBinGET(r + 1, t.Value.Id, t.Value),
                     NewBinGET(r + 2, t.Index.Id, t.Index),
                     NewBinSETITEM(r + 1, r + 2, r, r + 3, t),
                     NewBinJFALSE(r + 3, Lend, t),
                     NewBinSET(r + 1, t.Value.Id, t.Value),
                     NewBinLABEL(Lend, t)>>
       /\ lid = Lend

C14_Witness ==
  /\ phase = "lowered" /\ IsIdentItemLet(ast)
  /\ ast.Lhs.Value.Id # ast.Lhs.Index.Id
  /\ "SETITEM" \in Ops(bins) /\ reg0 = MaxReg /\ lid0 = MaxLid

\* A channel operation with both sides present, at the root.
IsChanBoth(e) == e.k = "Chan" /\ e.Lhs # Nil
\* The send / receive primitives the root node itself emits.
ChanPrimPcs ==
  {i \in DOMAIN bins : bins[i].op \in {"CHANSEND", "CHANRECV"} /\ bins[i].pos = ast.pos}

\* C15 as stated: the code of a channel operation starts with the
\* instructions of lhs, then those of rhs, then the primitives.
C15_ChanLeftToRight ==
  (phase = "lowered" /\ IsChanBoth(ast)) =>
    LET l == BinTo(ast.Lhs, reg0 + 2, lid0, FALSE, ord0)
        r == BinTo(ast.Rhs, reg0 + 1, l.lid, FALSE, ord0)
        n == Len(l.bins) + Len(r.bins)
    IN /\ SubSeq(bins, 1, n) = l.bins \o r.bins
       /\ \A i \in ChanPrimPcs : i > n

\* C15 amended: the code of a channel operation starts with the
\* instructions of rhs (into reg+1), then those of lhs (into reg+2), and
\* both precede the CHANSEND / CHANRECV primitives.
C15_ChanRhsThenLhs ==
  (phase = "lowered" /\ IsChanBoth(ast)) =>
    LET r == BinTo(ast.Rhs, reg0 + 1, lid0, FALSE, ord0)
        l == BinTo(ast.Lhs, reg0 + 2, r.lid, FALSE, ord0)
        n == Len(r.bins) + Len(l.bins)
    IN /\ SubSeq(bins, 1, n) = r.bins \o l.bins
       /\ ChanPrimPcs # {}
       /\ \A i \in ChanPrimPcs : i > n

C15_Witness ==
  /\ phase = "lowered" /\ IsChanBoth(ast)
  /\ ast.Rhs.k = "Ternary" /\ ast.Lhs.k = "Ident"
  /\ Cardinality(ChanPrimPcs) = 2

\* The code of a channel operation at the root: where the skeleton starts
\* (after the operands) and the skeleton itself.
ChanOperands ==
  LET r == BinTo(ast.Rhs, reg0 + 1, lid0, FALSE, ord0)
  IN IF ast.Lhs = Nil THEN r
     ELSE Cat(r, BinTo(ast.Lhs, reg0 + 2, r.lid, FALSE, ord0))
ChanSkeleton ==
  LET Lread == ChanOperands.lid + 1
      Lend == ChanOperands.lid + 2
      reg == reg0
  IN <<NewBinMV(reg + 2, reg + 3, ast),
       NewBinISKIND(reg + 3, "Chan", ast),
       NewBinJFALSE(reg + 3, Lread, ast),
       NewBinCHANSEND(reg + 2, reg + 1, ast),
       NewBinLOAD(reg, VMBool(TRUE), FALSE, ast),
       NewBinJMP(Lend, ast),
       NewBinLABEL(Lread, ast),
       NewBinCHANRECV(reg + 1, reg, ast)>>
       \o BinLetTo(ast.Lhs, reg, Lend, ord0).bins
       \o <<NewBinLABEL(Lend, ast)>>
ChanJumpPc == Len(ChanOperands.bins) + 3
ChanSendPc == Len(ChanOperands.bins) + 4
ChanRecvPc == Len(ChanOperands.bins) + 8

\* C16: with lhs present the operands are followed by the send / receive
\* skeleton with two fresh labels Lread and Lend, and a run executes
\* exactly one of CHANSEND and CHANRECV: CHANSEND iff the ISKIND test
\* found a channel.  With lhs absent the code is rhs into reg+1 followed
\* by CHANRECV reg+1,reg, with no label of its own.
C16_ChanSkeleton ==
  (phase = "lowered" /\ ast.k = "Chan") =>
    IF ast.Lhs = Nil
    THEN /\ bins = ChanOperands.bins \o <<NewBinCHANRECV(reg0 + 1, reg0, ast)>>
         /\ lid = ChanOperands.lid
    ELSE /\ bins = ChanOperands.bins \o ChanSkeleton
         /\ lid = BinLetTo(ast.Lhs, reg0, ChanOperands.lid + 2, ord0).lid
         /\ Halted =>
              /\ ChanSendPc \in executed <=> <<ChanJumpPc, TRUE>> \in taken
              /\ ChanRecvPc \in executed <=> <<ChanJumpPc, FALSE>> \in taken
              /\ (ChanSendPc \in executed) # (ChanRecvPc \in executed)

C16_Witness ==
  /\ Halted /\ IsChanBoth(ast) /\ ast.Lhs.k = "Item"
  /\ ChanRecvPc \in executed /\ ChanSendPc \notin executed

\* A code sequence without its spans.
NoSpan(code) == [i \in DOMAIN code |-> [code[i] EXCEPT !.pos = NoPos]]

\* A call at the root: its name (0 for an AnonCall), the code of the
\* callee that precedes the call proper, and the base of its arguments.
IsCallRoot == ast.k \in {"Call", "AnonCall"}
CallName == IF ast.k = "Call" THEN ast.Name ELSE 0
CallCallee ==
  IF ast.k = "AnonCall" THEN BinTo(ast.Expr, reg0, lid0, FALSE, ord0) ELSE Skip(lid0)
CallBase == IF CallName = 0 THEN reg0 + 1 ELSE reg0

\* Arguments i.. of a call with more than one argument: each is lowered
\* and stored into the slice at base with SETIDX base,i.
RECURSIVE SliceArgs(_, _, _, _)
SliceArgs(subs, i, base, l) ==
  IF i > Len(subs) THEN Skip(l)
  ELSE LET a == BinTo(subs[i], base + 1, l, FALSE, ord0)
       IN Cat(a, Cat(Emit(a.lid, NewBinSETIDX(base, i - 1, base + 1, subs[i])),
                     SliceArgs(subs, i + 1, base, a.lid)))

\* The code of the arguments of the call at the root.
CallArgs ==
  LET n == Len(ast.SubExprs)
  IN IF n > 1
     THEN Cat(Emit(CallCallee.lid, NewBinMAKESLICE(CallBase, n, n, ast)),
              SliceArgs(ast.SubExprs, 1, CallBase, CallCallee.lid))
     ELSE IF n = 1
     THEN BinTo(ast.SubExprs[1], CallBase, CallCallee.lid, FALSE, ord0)
     ELSE Skip(CallCallee.lid)

\* The code of the call at the root when its CALL names argBase.
CallCode(argBase) ==
  CallCallee.bins \o CallArgs.bins \o
    <<NewBinCALL(CallName, Len(ast.SubExprs), argBase, reg0,
                 ast.VarArg, ast.Go, ast)>>

\* C17 as stated: the arguments start at reg+1 when name = 0 and at reg
\* otherwise, several arguments go through MAKESLICE / SETIDX at that
\* base, a single one goes directly into the base, and the CALL carries
\* that base as argBase and reg as destination.
C17_CallCarriesArgBase ==
  (phase = "lowered" /\ IsCallRoot) =>
    NoSpan(bins) = NoSpan(CallCode(CallBase))

\* C17 amended: the same, but the CALL carries reg both as argBase and as
\* destination, also when name = 0 and the arguments start at reg+1.
C17_CallCarriesReg ==
  (phase = "lowered" /\ IsCallRoot) =>
    /\ NoSpan(bins) = NoSpan(CallCode(reg0))
    /\ lid = CallArgs.lid

C17_Witness ==
  /\ phase = "lowered" /\ ast.k = "AnonCall"
  /\ Len(ast.SubExprs) = MaxArgs /\ "MAKESLICE" \in Ops(bins)
  /\ bins[Len(bins)].RegArgs = reg0 /\ reg0 = MaxReg

\* The registers a call must keep while its arguments are lowered: the
\* callee's (AnonCall) and the one of the argument slice.
CallKept ==
  (IF ast.k = "AnonCall" THEN {reg0} ELSE {})
    \cup (IF Len(ast.SubExprs) > 1 THEN {CallBase} ELSE {})
\* The instructions of the arguments, after the MAKESLICE if there is one.
CallArgPcs ==
  Len(CallCallee.bins) + (IF Len(ast.SubExprs) > 1 THEN 2 ELSE 1) .. Len(bins) - 1

\* C18: the code of a call is the callee (AnonCall), then the arguments in
\* source order, then CALL; no instruction of an argument writes the
\* register of the callee or of the argument slice, so that when CALL runs
\* the callee's register was last written by the callee and the slice
\* register by MAKESLICE.
C18_CallArgumentOrder ==
  (phase = "lowered" /\ IsCallRoot) =>
    /\ SubSeq(NoSpan(bins), 1, Len(bins) - 1)
         = NoSpan(CallCallee.bins \o CallArgs.bins)
    /\ bins[Len(bins)].op = "CALL"
    /\ \A i \in CallArgPcs : Writes(bins[i]) \cap CallKept = {}
    /\ (pc = Len(bins) /\ ast.k = "AnonCall" /\ reg0 \in DOMAIN regs) =>
         regs[reg0].by <= Len(CallCallee.bins)
    /\ (pc = Len(bins) /\ Len(ast.SubExprs) > 1) =>
         /\ CallBase \in DOMAIN regs
         /\ regs[CallBase].by = Len(CallCallee.bins) + 1

C18_Witness ==
  /\ phase = "lowered" /\ ast.k = "AnonCall" /\ pc = Len(bins)
  /\ Len(ast.SubExprs) = 2 /\ ast.SubExprs[2].k = "Ternary"
  /\ reg0 \in DOMAIN regs /\ reg0 + 1 \in DOMAIN regs

\* An operator node at the root, lowered as an r-value: a 1x1 BinOp that
\* is not an assignment, an Item, a Slice; and its operands in order.
IsOperatorRoot ==
  \/ ast.k \in {"Item", "Slice"}
  \/ /\ ast.k = "BinOp" /\ Len(ast.Lhss) = 1 /\ Len(ast.Rhss) = 1
     /\ ~IsStmtAssign(ast, inStmt0)
Operands ==
  CASE ast.k = "BinOp" -> <<ast.Lhss[1], ast.Rhss[1]>>
    [] ast.k = "Item" -> <<ast.Value, ast.Index>>
    [] ast.k = "Slice" -> <<ast.Value, ast.Begin, ast.End>>
\* The operands' code: operand i goes to reg+i-1, except the right operand
\* of `&&` / `||`, which goes to reg after the conditional jump.
RECURSIVE OperandCode(_, _)
OperandCode(i, l) ==
  IF i > Len(Operands) THEN Skip(l)
  ELSE LET a == IF IsShortCircuit(ast) /\ i = 2
                THEN BinTo(Operands[i], reg0, l + 1, FALSE, ord0)
                ELSE BinTo(Operands[i], reg0 + i - 1, l, FALSE, ord0)
       IN Cat(a, OperandCode(i + 1, a.lid))
Operand1Len == Len(BinTo(Operands[1], reg0, lid0, FALSE, ord0).bins)
Operand2End ==
  Operand1Len
    + Len(BinTo(Operands[2], reg0 + 1,
                BinTo(Operands[1], reg0, lid0, FALSE, ord0).lid, FALSE, ord0).bins)
OperatorIns ==
  CASE ast.k = "BinOp" -> NewBinOPER(reg0, reg0 + 1, OperMap[ast.Operator], ast)
    [] ast.k = "Item" -> NewBinGETIDX(reg0, reg0 + 1, ast)
    [] ast.k = "Slice" -> NewBinGETSUBSLICE(reg0, reg0 + 1, reg0 + 2, ast)

\* C19: the operands of BinOp, Item and Slice are lowered in source order
\* and the operator instruction comes last (`&&` / `||` have none: their
\* code ends with their label); apart from `&&` / `||`, no instruction of a
\* later operand writes the register of the first operand, so that the
\* operator finds there what the first operand wrote.
C19_OperandOrder ==
  (phase = "lowered" /\ IsOperatorRoot) =>
    IF IsShortCircuit(ast)
    THEN /\ Len(bins) = Len(OperandCode(1, lid0).bins) + 2
         /\ SubSeq(bins, 1, Operand1Len) = SubSeq(OperandCode(1, lid0).bins, 1, Operand1Len)
         /\ SubSeq(bins, Operand1Len + 2, Len(bins) - 1)
              = SubSeq(OperandCode(1, lid0).bins, Operand1Len + 1, Len(bins) - 2)
         /\ bins[Len(bins)].op = "LABEL"
    ELSE /\ bins = OperandCode(1, lid0).bins \o <<OperatorIns>>
         /\ \A i \in Operand1Len + 1 .. Len(bins) - 1 : reg0 \notin Writes(bins[i])
         /\ \A i \in Operand2End + 1 .. Len(bins) - 1 : reg0 + 1 \notin Writes(bins[i])
         /\ pc = Len(bins) => (reg0 \in DOMAIN regs /\ regs[reg0].by <= Operand1Len)

C19_Witness ==
  /\ phase = "lowered" /\ pc = Len(bins)
  /\ ast.k = "Item" /\ ast.Value.k = "Ternary" /\ ast.Index.k = "Number"
  /\ regs[reg0].by <= Operand1Len /\ reg0 + 1 \in DOMAIN regs

\* An Addr or Deref at the root, and the instruction it closes with.
IsAddrRoot == ast.k \in {"Addr", "Deref"}
AddrIns ==
  CASE ast.k = "Addr" /\ ast.Expr.k = "Ident" -> NewBinADDRID(reg0, ast.Expr.Id, ast)
    [] ast.k = "Addr" /\ ast.Expr.k = "Member" -> NewBinADDRMBR(reg0, ast.Expr.Name, ast)
    [] ast.k = "Deref" /\ ast.Expr.k = "Ident" -> NewBinUNREFID(reg0, ast.Expr.Id, ast)
    [] ast.k = "Deref" /\ ast.Expr.k = "Member" -> NewBinUNREFMBR(reg0, ast.Expr.Name, ast)

\* C20: Addr / Deref of an identifier is the one instruction ADDRID /
\* UNREFID; of a member, the object lowered into reg followed by ADDRMBR /
\* UNREFMBR; of anything else, lowering fails with a string error raised
\* for the Addr / Deref node, leaving the buffer and the label counter as
\* they were.
C20_AddrDeref ==
  (phase \in {"lowered", "failed"} /\ IsAddrRoot) =>
    CASE ast.Expr.k = "Ident" ->
           phase = "lowered" /\ bins = <<AddrIns>> /\ lid = lid0
      [] ast.Expr.k = "Member" ->
           LET o == BinTo(ast.Expr.Expr, reg0, lid0, FALSE, ord0)
           IN o.ok => /\ phase = "lowered"
                      /\ bins = o.bins \o <<AddrIns>>
                      /\ lid = o.lid
      [] OTHER ->
           /\ phase = "failed" /\ bins = <<>> /\ lid = lid0
           /\ BinTo(ast, reg0, lid0, inStmt0, ord0).err
                = NewStringError(ast, "Nevernaya operaciya nad znacheniem")

C20_Witness ==
  /\ phase = "failed" /\ ast.k = "Deref" /\ ast.Expr.k = "Ternary"
  /\ bins = <<>> /\ lid0 = MaxLid /\ lid = lid0

\* A node whose optional child is absent: a Chan with no lhs, a MakeChan
\* with no size, a MakeArray with no cap, a TypeCast or a Make with no
\* type expression.
AbsentOptional(e) ==
  \/ e.k = "Chan" /\ e.Lhs = Nil
  \/ e.k = "MakeChan" /\ e.SizeExpr = Nil
  \/ e.k = "MakeArray" /\ e.CapExpr = Nil
  \/ e.k \in {"TypeCast", "Make"} /\ e.TypeExpr = Nil

\* C21: Simplify of a node whose optional child is absent, and whose
\* present children simplify, returns normally.
C21_SimplifyAbsentChild ==
  (/\ AbsentOptional(orig)
   /\ \A c \in Children(orig) \ {Nil} : Simplify(c).ok) =>
    stage # "panicked"

\* The code of the length of a MakeArray at the root, and of its cap.
MakeArrayLen == BinTo(ast.LenExpr, reg0, lid0, FALSE, ord0)
MakeArrayCap ==
  IF ast.CapExpr = Nil
  THEN Emit(MakeArrayLen.lid, [op |-> "MV", RegFrom |-> reg0, RegTo |-> reg0 + 1,
                               pos |-> ast.pos])
  ELSE BinTo(ast.CapExpr, reg0 + 1, MakeArrayLen.lid, FALSE, ord0)

\* C22: MakeArray(len, cap) into reg is the code of len into reg, the code
\* of cap into reg+1, then MAKEARR reg, reg+1; with the cap absent the one
\* instruction MV reg, reg+1 stands in place of the code of the cap.  When
\* MAKEARR executes, reg holds what the code of len wrote and reg+1 what
\* the code of the cap (or the MV) wrote.
C22_MakeArray ==
  (phase = "lowered" /\ ast.k = "MakeArray") =>
    /\ bins = MakeArrayLen.bins \o MakeArrayCap.bins
                \o <<[op |-> "MAKEARR", Reg |-> reg0, RegCap |-> reg0 + 1,
                      pos |-> ast.pos]>>
    /\ lid = MakeArrayCap.lid
    /\ ast.CapExpr = Nil => Len(MakeArrayCap.bins) = 1
    /\ pc = Len(bins) =>
         /\ reg0 \in DOMAIN regs /\ reg0 + 1 \in DOMAIN regs
         /\ regs[reg0].by <= Len(MakeArrayLen.bins)
         /\ regs[reg0 + 1].by > Len(MakeArrayLen.bins)

C22_Witness ==
  /\ phase = "lowered" /\ ast.k = "MakeArray" /\ ast.CapExpr = Nil
  /\ ast.LenExpr.k = "Ternary" /\ pc = Len(bins)
  /\ bins[Len(bins) - 1].op = "MV"

C22_WitnessCap ==
  /\ phase = "lowered" /\ ast.k = "MakeArray" /\ ast.CapExpr.k = "Ternary"
  /\ pc = Len(bins)

\* The simplified operands of the BinOp the pipeline started from, and
\* whether they fold: one Native on each side, both supporting binary
\* operations, and the evaluation succeeding.
FoldLhss == [i \in DOMAIN orig.Lhss |-> Simplify(orig.Lhss[i]).e]
FoldRhss == [i \in DOMAIN orig.Rhss |-> Simplify(orig.Rhss[i]).e]
FoldValue == EvalBinOp(FoldLhss[1].Value, OperMap[orig.Operator], FoldRhss[1].Value)
Folds ==
  /\ Len(FoldLhss) = 1 /\ Len(FoldRhss) = 1
  /\ FoldLhss[1].k = "Native" /\ FoldRhss[1].k = "Native"
  /\ IsVMOperationer(FoldLhss[1].Value) /\ IsVMOperationer(FoldRhss[1].Value)
  /\ ~FoldValue.err

\* C23: a BinOp with one operand on each side, both simplifying to Native
\* values that support binary operations and evaluate without error,
\* simplifies to the Native of the result, and lowering that emits exactly
\* one LOAD reg, <result>; in every other case the BinOp node itself is
\* returned, its operands simplified.
C23_BinOpFolding ==
  (stage = "simplified" /\ orig.k = "BinOp") =>
    IF Folds
    THEN /\ ast.k = "Native" /\ ast.Value = FoldValue.v
         /\ phase = "lowered" =>
              /\ Len(bins) = 1 /\ lid = lid0
              /\ bins[1].op = "LOAD" /\ bins[1].Reg = reg0
              /\ bins[1].Val = FoldValue.v /\ ~bins[1].IsId
    ELSE /\ ast.k = "BinOp" /\ ast.pos = orig.pos
         /\ ast.Operator = orig.Operator
         /\ ast.Lhss = FoldLhss /\ ast.Rhss = FoldRhss

C23_Witness ==
  /\ stage = "simplified" /\ orig.k = "BinOp" /\ orig.Operator = "+"
  /\ orig.Lhss[1].k = "Paren" /\ Folds
  /\ ast.k = "Native" /\ ast.Value = VMInt(4)
  /\ phase = "lowered" /\ Len(bins) = 1 /\ reg0 = 1

C23_WitnessKept ==
  /\ stage = "simplified" /\ orig.k = "BinOp" /\ ~Folds
  /\ orig.Lhss[1].k = "Paren" /\ ast.Lhss[1].k = "Native"

\* C24: lowering a Native or a String appends exactly one instruction, the
\* LOAD of the node's value into reg as a value (not as an identifier), and
\* leaves the label counter where it was.
C24_LoadOfValue ==
  (phase \in {"lowered", "failed"} /\ ast.k \in {"Native", "String"}) =>
    /\ phase = "lowered"
    /\ Len(bins) = 1
    /\ bins[1].op = "LOAD" /\ bins[1].Reg = reg0 /\ ~bins[1].IsId
    /\ bins[1].Val = (IF ast.k = "Native" THEN ast.Value
                      ELSE [t |-> "Str", s |-> ast.Lit])
    /\ lid = lid0

C24_Witness ==
  /\ phase = "lowered" /\ ast.k = "Native" /\ orig.k = "Array"
  /\ reg0 = 1 /\ lid0 = 1 /\ Len(bins) = 1 /\ bins[1].Val = ast.Value

C24_WitnessString ==
  /\ phase = "lowered" /\ ast.k = "String" /\ ast.Lit = "zz"
  /\ reg0 = 1 /\ lid0 = 1 /\ Len(bins) = 1

\* C25: lowering a node with destination reg emits only instructions whose
\* written registers are reg or above.
C25_RegisterDiscipline ==
  phase \in {"lowered", "failed"} =>
    \A i \in DOMAIN bins : \A w \in Writes(bins[i]) : w >= reg0

C25_Witness ==
  /\ phase = "lowered" /\ reg0 = 1
  /\ ast.k = "Let" /\ ast.Lhs.k = "Item" /\ ast.Lhs.Value.k = "Item"
  /\ \E i \in DOMAIN bins : bins[i].op = "SETITEM" /\ bins[i].RegNeedLet = reg0 + 4
  /\ \E i \in DOMAIN bins : reg0 \in Writes(bins[i])

\* The label ids an instruction sequence mentions, as LABEL or as target.
LabelIds(code) ==
  UNION {Targets(code[i]) : i \in DOMAIN code}
    \cup {code[i].Label : i \in LabelPcs(code)}

\* The accounting of C26 over the buffer and the counter of a run.
LabelsWithin ==
  /\ lid >= lid0
  /\ \A l \in LabelIds(bins) : lid0 < l /\ l <= lid
LabelsCounted == lid = lid0 + Cardinality(LabelPcs(bins))

IsEql(n) == n.k = "BinOp" /\ OperMap[n.Operator] = "EQL"
IsFuncStmt(n) ==
  \E f \in Nodes(ast) : f.k = "Func" /\ \E i \in DOMAIN f.Stmts : f.Stmts[i] = n
NestedEqls == {n \in Nodes(ast) : IsEql(n) /\ n # ast /\ ~IsFuncStmt(n)}
OneByOne(n) == Len(n.Lhss) = 1 /\ Len(n.Rhss) = 1
Cardinality1x1 ==
  [kind |-> "StringError", pos |-> ast.pos,
   msg |-> "S kazhdoj storony operacii mozhet byt tolko odno vyrazhenie"]

\* C27: `==` is read as an assignment only at the top of a statement.  A
\* BinOp `==` nested inside another expression is lowered as a comparison:
\* its code has the OPER with the equality opcode.  A BinOp `==` lowered
\* with inStmt = true emits no OPER of its own and is not subject to the
\* one-expression-per-side check.  Any other BinOp whose sides are not both
\* of length 1 fails before any instruction is appended.
C27_EqlAssignOnlyAtTop ==
  /\ phase = "lowered" =>
       \A n \in NestedEqls :
         /\ OneByOne(n)
         /\ \E i \in DOMAIN bins :
              /\ bins[i].op = "OPER" /\ bins[i].Op = "EQL" /\ bins[i].pos = n.pos
  /\ (phase \in {"lowered", "failed"} /\ IsStmtAssign(ast, inStmt0)) =>
       /\ \A i \in DOMAIN bins : ~(bins[i].op = "OPER" /\ bins[i].pos = ast.pos)
       /\ BinTo(ast, reg0, lid0, inStmt0, ord0).err # Cardinality1x1
       /\ (Len(ast.Lhss) = 2 /\ Len(ast.Rhss) = 2
             /\ \A j \in 1 .. 2 : ast.Lhss[j].k = "Ident" /\ ast.Rhss[j].k = "Number")
            => phase = "lowered"
  /\ (phase \in {"lowered", "failed"} /\ ast.k = "BinOp"
        /\ ~IsStmtAssign(ast, inStmt0) /\ ~OneByOne(ast)) =>
       /\ phase = "failed" /\ bins = <<>>
       /\ BinTo(ast, reg0, lid0, inStmt0, ord0).err = Cardinality1x1

C27_Witness ==
  /\ phase = "lowered" /\ inStmt0 /\ ast.k = "Unary"
  /\ IsEql(ast.Expr) /\ ast.Expr \in NestedEqls
  /\ \E i \in DOMAIN bins : bins[i].op = "OPER" /\ bins[i].Op = "EQL"

C27_WitnessStmt ==
  /\ phase = "lowered" /\ IsStmtAssign(ast, inStmt0) /\ Len(ast.Lhss) = 2
  /\ "SET" \in Ops(bins) /\ "OPER" \notin Ops(bins)

C27_WitnessFails ==
  /\ phase = "failed" /\ ast.k = "BinOp" /\ ast.Operator = "=="
  /\ ~inStmt0 /\ Len(ast.Lhss) = 2 /\ bins = <<>>

\* The value a constant text stands for.
ConstValue(text) ==
  CASE text \in {"true", "True", "TRUE", "istina", "Istina"} -> [t |-> "Bool", b |-> TRUE]
    [] text \in {"false", "False", "lozh", "Lozh"} -> [t |-> "Bool", b |-> FALSE]
    [] text \in {"null", "NULL", "Null"} -> [t |-> "Null"]
    [] OTHER -> [t |-> "Nil"]

\* C28: lowering Simplify(Const) into reg emits the same single LOAD reg,
\* value as lowering the Const itself: Bool(true) for any letter case of
\* true / istina, Bool(false) for false / lozh, Null for null, and Nil for
\* any other text, which Simplify leaves as the Const node.
C28_ConstLowering ==
  (phase = "lowered" /\ orig.k = "Const" /\ stage \in {"parsed", "simplified"}) =>
    /\ Len(bins) = 1 /\ lid = lid0
    /\ bins[1].op = "LOAD" /\ bins[1].Reg = reg0 /\ ~bins[1].IsId
    /\ bins[1].Val = ConstValue(orig.Value)
    /\ NoSpan(bins) = NoSpan(BinTo(orig, reg0, lid0, inStmt0, ord0).bins)
    /\ (stage = "simplified" /\ ConstValue(orig.Value) = [t |-> "Nil"]) => ast = orig

C28_Witness ==
  /\ phase = "lowered" /\ stage = "simplified"
  /\ orig.k = "Const" /\ orig.Value = "Istina" /\ ast.k = "Native"
  /\ reg0 = 1 /\ bins[1].Val = [t |-> "Bool", b |-> TRUE]

C28_WitnessNil ==
  /\ phase = "lowered" /\ stage = "simplified"
  /\ orig.k = "Const" /\ orig.Value = "nil" /\ ast.k = "Const"
  /\ bins[1].Val = [t |-> "Nil"]

\* An expression that cannot be assigned through: it is no l-expression, or
\* it is an Item or Slice of a container that cannot be assigned through.
RECURSIVE Unassignable(_)
Unassignable(l) ==
  \/ l.k \notin {"Ident", "Member", "Item", "Slice"}
  \/ l.k \in {"Item", "Slice"} /\ Unassignable(l.Value)
\* The Item or Slice at which the assignment through l gives up.
RECURSIVE Rejecting(_)
Rejecting(l) ==
  IF l.Value.k \in {"Item", "Slice"} THEN Rejecting(l.Value) ELSE l
\* The expressions lowered on the way: the containers, indexes and bounds.
RECURSIVE ChainParts(_)
ChainParts(l) ==
  CASE l.k = "Item" -> {l.Value, l.Index} \cup ChainParts(l.Value)
    [] l.k = "Slice" -> {l.Value, l.Begin, l.End} \cup ChainParts(l.Value)
    [] OTHER -> {}
\* A Let, or a Chan with a left side, at the root, whose left side cannot
\* be assigned through while everything lowered on the way lowers.
IsRejectedAssign ==
  /\ ast.k \in {"Let", "Chan"} /\ ast.Lhs.k # "nil"
  /\ Unassignable(ast.Lhs)
  /\ \A c \in {ast.Rhs} \cup ChainParts(ast.Lhs) \cup
               (IF ast.k = "Chan" THEN {ast.Lhs} ELSE {}) :
       BinTo(c, 0, 0, FALSE, ord0).ok
Dangling(code) ==
  {i \in DOMAIN code : \E l \in Targets(code[i]) : LabelsAt(code, l) = {}}

\* C29: a Let, or a Chan with a left side, whose left side is no
\* l-expression, or is an Item or Slice of a container that is none, fails
\* at lowering.  What was appended before the failure stays in the buffer:
\* the code of the right side first; for an Item or Slice, the container's
\* and the index's code, SETITEM / SETSLICE and the JFALSE, whose label is
\* never emitted; for a Chan, the direction test and the receive, with the
\* JMP to the end label that is never emitted.
C29_RejectedAssign ==
  (phase \in {"lowered", "failed"} /\ IsRejectedAssign) =>
    /\ phase = "failed"
    /\ LET r == BinTo(ast.Rhs, IF ast.k = "Chan" THEN reg0 + 1 ELSE reg0,
                      lid0, FALSE, ord0)
       IN /\ Len(bins) >= Len(r.bins)
          /\ SubSeq(bins, 1, Len(r.bins)) = r.bins
          /\ (ast.k = "Let" /\ ~IsCanLetExpr(ast.Lhs)) => bins = r.bins
    /\ ast.Lhs.k \in {"Item", "Slice"} =>
         /\ bins[Len(bins)].op = "JFALSE"
         /\ Len(bins) \in Dangling(bins)
         /\ bins[Len(bins) - 1].op =
              (IF Rejecting(ast.Lhs).k = "Item" THEN "SETITEM" ELSE "SETSLICE")
         /\ bins[Len(bins) - 1].pos = Rejecting(ast.Lhs).pos
         /\ bins[Len(bins)].Reg = bins[Len(bins) - 1].RegNeedLet
    /\ ast.k = "Chan" =>
         /\ \E i \in Dangling(bins) : bins[i].op = "JMP"
         /\ ~IsCanLetExpr(ast.Lhs) => bins[Len(bins)].op = "CHANRECV"

C29_Witness ==
  /\ phase = "failed" /\ IsRejectedAssign
  /\ ast.k = "Let" /\ ast.Lhs.k = "Item" /\ ast.Lhs.Value.k = "Slice"
  /\ ast.Rhs.k = "Ternary"
  /\ bins[Len(bins) - 1].op = "SETSLICE" /\ Cardinality(Dangling(bins)) = 2

C29_WitnessChan ==
  /\ phase = "failed" /\ IsRejectedAssign /\ ast.k = "Chan"
  /\ ast.Lhs.k = "Call" /\ bins[Len(bins)].op = "CHANRECV"

C29_WitnessLet ==
  /\ phase = "failed" /\ IsRejectedAssign /\ ast.k = "Let"
  /\ ast.Lhs.k = "Ternary" /\ ast.Rhs.k = "Number" /\ Len(bins) = 2

\* The default clauses of a case list.
Defaults(cases) == {i \in DOMAIN cases : cases[i].k = "DefaultStmt"}

\* C30: when a default clause is reduced onto a case list that already has
\* one, the parser reports "multiple default statement" through
\* yylex.Error; a list built without any such report has at most one
\* default clause; and the clauses of the list are the clauses of the
\* source, in the order of the source.
C30_MultipleDefault ==
  /\ Cardinality(Defaults(stmt_cases)) >= 2 =>
       /\ errors # <<>>
       /\ \A i \in DOMAIN errors : errors[i] = "multiple default statement"
  /\ errors = <<>> => Cardinality(Defaults(stmt_cases)) <= 1
  /\ stmt_cases = consumed
  /\ \A i \in DOMAIN stmt_cases : stmt_cases[i].n = i

C30_Witness ==
  /\ Len(stmt_cases) = 3 /\ Defaults(stmt_cases) = {1, 3}
  /\ errors = <<"multiple default statement">>

C30_WitnessClean ==
  /\ Len(stmt_cases) = MaxCases /\ Defaults(stmt_cases) = {2} /\ errors = <<>>

====
